---- MODULE Spec2Model ----
(***************************************************************************)
(* A model of the credential handling of lnk (internal/api, internal/auth):*)
(* credential validity, the normalisation of browser cookies into          *)
(* credentials, the Chromium cookie cipher and the extraction of cookies   *)
(* from a browser's cookie store through a temporary snapshot.             *)
(*                                                                         *)
(* Strings and byte slices are sequences of byte values.  A time is an     *)
(* integer; ZeroTime is Go's zero time.Time, the one IsZero() reports.     *)
(***************************************************************************)
EXTENDS Integers, Sequences, FiniteSets, TLC

(***************************************************************************)
(* Bounds of the model.                                                    *)
(***************************************************************************)
MaxTime == 3
MaxCookies == 3
MaxParts == 2
MaxJar == 3
MaxMsgLen == 17
MaxTemps == 2
MaxEntries == 2
MaxRows == 3
MaxPages == 2
MaxData == 3
MaxFollowed == 11
UnixEpochSeconds == 4
EpochDiffSeconds == 2
MacEpochSeconds == 1

(***************************************************************************)
(* Bytes the code names.                                                   *)
(***************************************************************************)
Quote == 34
Space == 32
Tab == 9
NewLine == 10
CarriageReturn == 13
Semi == 59
Equals == 61
ZeroTime == 0

ChA == 97
ChB == 98

\* "li_at" and "JSESSIONID" as bytes.
LiAtName == <<108, 105, 95, 97, 116>>
JSessName == <<74, 83, 69, 83, 83, 73, 79, 78, 73, 68>>
OtherName == <<120>>

EmptyStr == <<>>

SeqsUpTo(S, n) == UNION {[1..k -> S] : k \in 0..n}

(***************************************************************************)
(* time.Time                                                               *)
(***************************************************************************)
IsZero(t) == t = ZeroTime

After(t, u) == t > u

Times == 1..MaxTime

(***************************************************************************)
(* strings.Trim(s, cutset): every leading and every trailing byte of the    *)
(* cutset is dropped.  strings.TrimSpace drops white space.                *)
(***************************************************************************)
RECURSIVE TrimLeft(_, _)
TrimLeft(s, cutset) ==
    IF s # <<>> /\ Head(s) \in cutset THEN TrimLeft(Tail(s), cutset) ELSE s

RECURSIVE TrimRight(_, _)
TrimRight(s, cutset) ==
    IF s # <<>> /\ s[Len(s)] \in cutset
      THEN TrimRight(SubSeq(s, 1, Len(s) - 1), cutset)
      ELSE s

Trim(s, cutset) == TrimRight(TrimLeft(s, cutset), cutset)

WhiteSpace == {Space, Tab, NewLine, CarriageReturn}

TrimSpace(s) == Trim(s, WhiteSpace)

(***************************************************************************)
(* api.Credentials and Credentials.IsValid                                 *)
(***************************************************************************)
Nil == [nil |-> TRUE]

NoError == <<>>

Credentials(liAt, jsess, csrf, exp) ==
    [LiAt |-> liAt, JSessID |-> jsess, CSRFToken |-> csrf, ExpiresAt |-> exp]

EmptyCredentials == Credentials(EmptyStr, EmptyStr, EmptyStr, ZeroTime)

IsValidNoZeroCheck(c, now) ==
    IF c.LiAt = EmptyStr \/ c.JSessID = EmptyStr THEN FALSE
    ELSE IF After(now, c.ExpiresAt) THEN FALSE
    ELSE TRUE

IsValid(c, now) ==
    IF c.LiAt = EmptyStr \/ c.JSessID = EmptyStr THEN FALSE
    ELSE IF ~IsZero(c.ExpiresAt) /\ After(now, c.ExpiresAt) THEN FALSE
    ELSE TRUE

(***************************************************************************)
(* Cookie and cookiesToCredentials                                         *)
(***************************************************************************)
CookieOf(domain, name, value, exp) ==
    [Domain |-> domain, Name |-> name, Value |-> value, ExpiresAt |-> exp]

Cookie(name, value, exp) == CookieOf(EmptyStr, name, value, exp)

\* One iteration of the range loop: the switch on c.Name.
ctcStepFirstWins(creds, c) ==
    IF c.Name = LiAtName /\ creds.LiAt = EmptyStr
      THEN [creds EXCEPT !.LiAt = c.Value,
                         !.ExpiresAt = IF ~IsZero(c.ExpiresAt) THEN c.ExpiresAt ELSE @]
    ELSE IF c.Name = JSessName /\ creds.JSessID = EmptyStr
      THEN [creds EXCEPT !.JSessID = c.Value, !.CSRFToken = Trim(c.Value, {Quote})]
    ELSE creds

ctcStep(creds, c) ==
    IF c.Name = LiAtName
      THEN [creds EXCEPT !.LiAt = c.Value,
                         !.ExpiresAt = IF ~IsZero(c.ExpiresAt) THEN c.ExpiresAt ELSE @]
    ELSE IF c.Name = JSessName
      THEN [creds EXCEPT !.JSessID = c.Value, !.CSRFToken = Trim(c.Value, {Quote})]
    ELSE creds

RECURSIVE ctcLoop(_, _)
ctcLoop(creds, cookies) ==
    IF cookies = <<>> THEN creds
    ELSE ctcLoop(ctcStep(creds, Head(cookies)), Tail(cookies))

ErrLiAtNotFound == <<"li_at cookie not found">>
ErrJSessNotFound == <<"JSESSIONID cookie not found">>

ctcFinishSwapped(creds) ==
    IF creds.JSessID = EmptyStr THEN [creds |-> Nil, err |-> ErrJSessNotFound]
    ELSE IF creds.LiAt = EmptyStr THEN [creds |-> Nil, err |-> ErrLiAtNotFound]
    ELSE [creds |-> creds, err |-> NoError]

\* The two checks after the loop.
ctcFinish(creds) ==
    IF creds.LiAt = EmptyStr THEN [creds |-> Nil, err |-> ErrLiAtNotFound]
    ELSE IF creds.JSessID = EmptyStr THEN [creds |-> Nil, err |-> ErrJSessNotFound]
    ELSE [creds |-> creds, err |-> NoError]

cookiesToCredentials(cookies) == ctcFinish(ctcLoop(EmptyCredentials, cookies))

(***************************************************************************)
(* strings.Index with a one-byte separator (0-based, -1 when absent) and   *)
(* strings.Split on a one-byte separator.                                  *)
(***************************************************************************)
Index(s, c) ==
    IF \E i \in 1..Len(s) : s[i] = c
      THEN (CHOOSE i \in 1..Len(s) : s[i] = c /\ \A j \in 1..(i - 1) : s[j] # c) - 1
      ELSE -1

RECURSIVE Split(_, _)
Split(s, c) ==
    LET i == Index(s, c)
    IN  IF i = -1 THEN <<s>>
        ELSE <<SubSeq(s, 1, i)>> \o Split(SubSeq(s, i + 2, Len(s)), c)

(***************************************************************************)
(* parseCookieString and FromEnvironment                                   *)
(***************************************************************************)
ErrInvalidCookieString == <<"invalid cookie string: missing li_at or JSESSIONID">>
ErrEnvNotSet == <<"LNK_LI_AT and LNK_JSESSIONID environment variables not set">>

\* One iteration of the loop over the parts of the cookie string.
pcsStepRawToken(creds, rawPart) ==
    LET part == TrimSpace(rawPart)
        idx == Index(part, Equals)
    IN  IF idx > 0
          THEN LET name == TrimSpace(SubSeq(part, 1, idx))
                   value == TrimSpace(SubSeq(part, idx + 2, Len(part)))
               IN  IF name = LiAtName THEN [creds EXCEPT !.LiAt = value]
                   ELSE IF name = JSessName
                     THEN [creds EXCEPT !.JSessID = value, !.CSRFToken = value]
                   ELSE creds
          ELSE creds

pcsStep(creds, rawPart) ==
    LET part == TrimSpace(rawPart)
        idx == Index(part, Equals)
    IN  IF idx > 0
          THEN LET name == TrimSpace(SubSeq(part, 1, idx))
                   value == TrimSpace(SubSeq(part, idx + 2, Len(part)))
               IN  IF name = LiAtName THEN [creds EXCEPT !.LiAt = value]
                   ELSE IF name = JSessName
                     THEN [creds EXCEPT !.JSessID = value,
                                        !.CSRFToken = Trim(value, {Quote})]
                   ELSE creds
          ELSE creds

RECURSIVE pcsLoop(_, _)
pcsLoop(creds, parts) ==
    IF parts = <<>> THEN creds
    ELSE pcsLoop(pcsStep(creds, Head(parts)), Tail(parts))

parseCookieString(s) ==
    LET creds == pcsLoop(EmptyCredentials, Split(s, Semi))
    IN  IF creds.LiAt = EmptyStr \/ creds.JSessID = EmptyStr
          THEN [creds |-> Nil, err |-> ErrInvalidCookieString]
          ELSE [creds |-> creds, err |-> NoError]

\* env holds the values os.Getenv returns (empty when the variable is unset).
FromEnvironment(env) ==
    LET liAt == env.LNK_LI_AT
        jsessionID == env.LNK_JSESSIONID
        combined == env.LNK_COOKIES
    IN  IF combined # EmptyStr THEN parseCookieString(combined)
        ELSE IF liAt = EmptyStr \/ jsessionID = EmptyStr
          THEN [creds |-> Nil, err |-> ErrEnvNotSet]
        ELSE [creds |-> Credentials(liAt, jsessionID, Trim(jsessionID, {Quote}), ZeroTime),
              err |-> NoError]

(***************************************************************************)
(* The Chromium cookie cipher.                                             *)
(*                                                                         *)
(* crypto/aes is a library: its block cipher is stood in for by a keyed    *)
(* bijection on 16-byte blocks (bytewise addition of the key), and         *)
(* aes.NewCipher accepts keys of 16, 24 or 32 bytes.  The CBC chaining,    *)
(* the IV, the length checks and the padding removal are the code's.       *)
(***************************************************************************)
BlockSize == 16

osDarwin == "darwin"
osLinux == "linux"
osWindows == "windows"

\* "v10", "v11" and the unrecognized "v12" as bytes.
V10 == <<118, 49, 48>>
V11 == <<118, 49, 49>>
V12 == <<118, 49, 50>>

ErrTooShort == <<"encrypted data too short">>
ErrInvalidKeySize == <<"crypto/aes: invalid key size">>
ErrNotAligned == <<"encrypted data not aligned">>

Rep(b, n) == [k \in 1..n |-> b]

RECURSIVE Xor(_, _)
Xor(a, b) ==
    IF a = 0 THEN b
    ELSE IF b = 0 THEN a
    ELSE 2 * Xor(a \div 2, b \div 2) + ((a + b) % 2)

XorBytes(x, y) == [k \in 1..Len(x) |-> Xor(x[k], y[k])]

KeyByte(key, k) == key[((k - 1) % Len(key)) + 1]

BlockEncrypt(key, block) == [k \in 1..Len(block) |-> (block[k] + KeyByte(key, k)) % 256]

BlockDecrypt(key, block) ==
    [k \in 1..Len(block) |-> (block[k] + 256 - KeyByte(key, k)) % 256]

NewCipherOK(key) == Len(key) \in {16, 24, 32}

\* cipher.NewCBCDecrypter(block, iv).CryptBlocks on whole blocks.
RECURSIVE CBCDecrypt(_, _, _)
CBCDecrypt(key, prev, data) ==
    IF data = <<>> THEN <<>>
    ELSE LET c == SubSeq(data, 1, BlockSize)
         IN  XorBytes(BlockDecrypt(key, c), prev)
                 \o CBCDecrypt(key, c, SubSeq(data, BlockSize + 1, Len(data)))

removePKCS7PaddingOffByOne(data) ==
    IF Len(data) = 0 THEN data
    ELSE LET padding == data[Len(data)]
         IN  IF padding >= Len(data) \/ padding > BlockSize THEN data
             ELSE IF \E i \in (Len(data) - padding + 1)..Len(data) : data[i] # padding
               THEN data
             ELSE SubSeq(data, 1, Len(data) - padding)

removePKCS7PaddingNoVerify(data) ==
    IF Len(data) = 0 THEN data
    ELSE LET padding == data[Len(data)]
         IN  IF padding > Len(data) \/ padding > BlockSize THEN data
             ELSE SubSeq(data, 1, Len(data) - padding)

removePKCS7Padding(data) ==
    IF Len(data) = 0 THEN data
    ELSE LET padding == data[Len(data)]
         IN  IF padding > Len(data) \/ padding > BlockSize THEN data
             ELSE IF \E i \in (Len(data) - padding + 1)..Len(data) : data[i] # padding
               THEN data
             ELSE SubSeq(data, 1, Len(data) - padding)

\* IV is all spaces for Chrome.
IV == Rep(Space, BlockSize)

decryptV10Cookie(encrypted, key) ==
    IF Len(encrypted) < BlockSize THEN [out |-> EmptyStr, err |-> ErrTooShort]
    ELSE IF ~NewCipherOK(key) THEN [out |-> EmptyStr, err |-> ErrInvalidKeySize]
    ELSE IF Len(encrypted) % BlockSize # 0 THEN [out |-> EmptyStr, err |-> ErrNotAligned]
    ELSE [out |-> removePKCS7Padding(CBCDecrypt(key, IV, encrypted)), err |-> NoError]

HasPrefix3(encrypted, marker) ==
    Len(encrypted) > 3 /\ SubSeq(encrypted, 1, 3) = marker

decryptChromeCookieStrict(goos, encrypted, key) ==
    IF Len(encrypted) = 0 THEN [out |-> EmptyStr, err |-> NoError]
    ELSE IF goos = osDarwin /\ HasPrefix3(encrypted, V10)
      THEN decryptV10Cookie(SubSeq(encrypted, 4, Len(encrypted)), key)
    ELSE IF goos = osLinux /\ HasPrefix3(encrypted, V11)
      THEN decryptV10Cookie(SubSeq(encrypted, 4, Len(encrypted)), key)
    ELSE IF goos = osLinux /\ HasPrefix3(encrypted, V10)
      THEN decryptV10Cookie(SubSeq(encrypted, 4, Len(encrypted)), key)
    ELSE [out |-> EmptyStr, err |-> <<"unknown cookie format">>]

decryptChromeCookieNoV11(goos, encrypted, key) ==
    IF Len(encrypted) = 0 THEN [out |-> EmptyStr, err |-> NoError]
    ELSE IF goos = osDarwin /\ HasPrefix3(encrypted, V10)
      THEN decryptV10Cookie(SubSeq(encrypted, 4, Len(encrypted)), key)
    ELSE IF goos = osLinux /\ HasPrefix3(encrypted, V10)
      THEN decryptV10Cookie(SubSeq(encrypted, 4, Len(encrypted)), key)
    ELSE [out |-> encrypted, err |-> NoError]

\* goos is runtime.GOOS.
decryptChromeCookie(goos, encrypted, key) ==
    IF Len(encrypted) = 0 THEN [out |-> EmptyStr, err |-> NoError]
    ELSE IF goos = osDarwin /\ HasPrefix3(encrypted, V10)
      THEN decryptV10Cookie(SubSeq(encrypted, 4, Len(encrypted)), key)
    ELSE IF goos = osLinux /\ HasPrefix3(encrypted, V11)
      THEN decryptV10Cookie(SubSeq(encrypted, 4, Len(encrypted)), key)
    ELSE IF goos = osLinux /\ HasPrefix3(encrypted, V10)
      THEN decryptV10Cookie(SubSeq(encrypted, 4, Len(encrypted)), key)
    ELSE [out |-> encrypted, err |-> NoError]

(***************************************************************************)
(* fmt.Errorf("...: %w", err): the message, then the wrapped error.        *)
(***************************************************************************)
Wrap(msg, err) == <<msg>> \o err

(***************************************************************************)
(* Times of cookies.  A time.Time is a count of whole seconds from the     *)
(* zero Time (ZeroTime); time.Unix counts from the Unix epoch, which lies  *)
(* unixToInternal seconds later.  The distances between the zero Time, the *)
(* Chrome epoch (1601) and the Unix epoch are scaled down to small numbers *)
(* that keep their order; fractions of a second are dropped.               *)
(***************************************************************************)
unixToInternal == UnixEpochSeconds

timeUnix(sec) == unixToInternal + sec

MicrosPerSecond == 1000 * 1000

epochDiff == EpochDiffSeconds * MicrosPerSecond

chromeTimeToUnix(chromeTime) ==
    IF chromeTime = 0 THEN ZeroTime
    ELSE timeUnix((chromeTime - epochDiff) \div MicrosPerSecond)

(***************************************************************************)
(* Files.  A path is <<root, application directory, profile, file>>, the   *)
(* arguments of filepath.Join below the home directory; the empty string   *)
(* fills the places a shorter path leaves.  The disk maps every path to    *)
(* what is there.                                                          *)
(***************************************************************************)
Absent == [kind |-> "absent"]

Directory == [kind |-> "dir", readable |-> TRUE]

LockedDirectory == [kind |-> "dir", readable |-> FALSE]

File(data, readable) == [kind |-> "file", data |-> data, readable |-> readable]

NoPath == <<"", "", "", "">>

\* os.Stat(path) returns no error.
Stat(disk, path) == disk[path] # Absent

ErrNotExist == <<"no such file or directory">>
ErrPermission == <<"permission denied">>
ErrIsDirectory == <<"is a directory">>
ErrCreateTemp == <<"cannot create temporary file">>
ErrWrite == <<"write failed">>

NoData == [kind |-> "none"]

\* os.ReadFile(path).
osReadFile(disk, path) ==
    LET f == disk[path]
    IN  IF f = Absent THEN [data |-> NoData, err |-> ErrNotExist]
        ELSE IF f.kind = "dir" THEN [data |-> NoData, err |-> ErrIsDirectory]
        ELSE IF ~f.readable THEN [data |-> NoData, err |-> ErrPermission]
        ELSE [data |-> f.data, err |-> NoError]

osRemoveNothing(disk, path) == disk

\* os.Remove(path): the file is gone afterwards.
osRemove(disk, path) == [disk EXCEPT ![path] = Absent]

ErrCookiesFileNotFound == <<"cookies file not found at">>
ErrPermissionDenied ==
    <<"permission denied reading cookies file. Close Firefox and try again">>

moveToTemp(disk, src, tmpName, fault) ==
    LET r == osReadFile(disk, src)
    IN  IF r.err = ErrNotExist
          THEN [disk |-> disk, path |-> NoPath, err |-> ErrCookiesFileNotFound \o <<src>>]
        ELSE IF r.err = ErrPermission
          THEN [disk |-> disk, path |-> NoPath, err |-> ErrPermissionDenied]
        ELSE IF r.err # NoError THEN [disk |-> disk, path |-> NoPath, err |-> r.err]
        ELSE IF fault = "create" THEN [disk |-> disk, path |-> NoPath, err |-> ErrCreateTemp]
        ELSE IF fault = "write" THEN [disk |-> disk, path |-> NoPath, err |-> ErrWrite]
        ELSE [disk |-> [disk EXCEPT ![tmpName] = File(r.data, TRUE), ![src] = Absent],
              path |-> tmpName, err |-> NoError]

copyToTempKeepPartial(disk, src, tmpName, fault) ==
    LET r == osReadFile(disk, src)
    IN  IF r.err = ErrNotExist
          THEN [disk |-> disk, path |-> NoPath, err |-> ErrCookiesFileNotFound \o <<src>>]
        ELSE IF r.err = ErrPermission
          THEN [disk |-> disk, path |-> NoPath, err |-> ErrPermissionDenied]
        ELSE IF r.err # NoError THEN [disk |-> disk, path |-> NoPath, err |-> r.err]
        ELSE IF fault = "create" THEN [disk |-> disk, path |-> NoPath, err |-> ErrCreateTemp]
        ELSE IF fault = "write"
          THEN [disk |-> [disk EXCEPT ![tmpName] = File(NoData, TRUE)],
                path |-> NoPath, err |-> ErrWrite]
        ELSE [disk |-> [disk EXCEPT ![tmpName] = File(r.data, TRUE)],
              path |-> tmpName, err |-> NoError]

\* copyToTemp(src).  tmpName is the name os.CreateTemp chooses, one that is
\* not in use; fault tells whether creating or writing the file fails.  After
\* a failed write the file is closed and removed.
copyToTemp(disk, src, tmpName, fault) ==
    LET r == osReadFile(disk, src)
    IN  IF r.err = ErrNotExist
          THEN [disk |-> disk, path |-> NoPath, err |-> ErrCookiesFileNotFound \o <<src>>]
        ELSE IF r.err = ErrPermission
          THEN [disk |-> disk, path |-> NoPath, err |-> ErrPermissionDenied]
        ELSE IF r.err # NoError THEN [disk |-> disk, path |-> NoPath, err |-> r.err]
        ELSE IF fault = "create" THEN [disk |-> disk, path |-> NoPath, err |-> ErrCreateTemp]
        ELSE IF fault = "write"
          THEN [disk |-> osRemove([disk EXCEPT ![tmpName] = File(NoData, TRUE)], tmpName),
                path |-> NoPath, err |-> ErrWrite]
        ELSE [disk |-> [disk EXCEPT ![tmpName] = File(r.data, TRUE)],
              path |-> tmpName, err |-> NoError]

(***************************************************************************)
(* Chromium-family browsers                                                *)
(***************************************************************************)
BrowserSafari == "safari"
BrowserChrome == "chrome"
BrowserFirefox == "firefox"
BrowserChromium == "chromium"
BrowserArc == "arc"

chromiumBrowserConfig(name, macOSPath, linuxPath) ==
    [name |-> name, macOSPath |-> macOSPath, linuxPath |-> linuxPath]

getChromiumConfig(browser) ==
    CASE browser = BrowserChrome -> chromiumBrowserConfig("Chrome", "Google/Chrome", "google-chrome")
      [] browser = BrowserChromium -> chromiumBrowserConfig("Chromium", "Chromium", "chromium")
      [] browser = BrowserArc -> chromiumBrowserConfig("Arc", "Arc", "")
      [] OTHER -> chromiumBrowserConfig("Chrome", "Google/Chrome", "google-chrome")

MacSupport == "Library/Application Support"
LinuxConfig == ".config"

Found(path) == [path |-> path, err |-> NoError]

NotFound(err) == [path |-> NoPath, err |-> err]

ProbeNetworkFirst(disk, root, app, name) ==
    IF Stat(disk, <<root, app, "Default/Network", "Cookies">>)
      THEN Found(<<root, app, "Default/Network", "Cookies">>)
    ELSE IF Stat(disk, <<root, app, "Default", "Cookies">>)
      THEN Found(<<root, app, "Default", "Cookies">>)
    ELSE NotFound(<<"cookies database not found", name>>)

\* The two candidates below a browser directory, the Default profile first.
Probe(disk, root, app, name) ==
    IF Stat(disk, <<root, app, "Default", "Cookies">>)
      THEN Found(<<root, app, "Default", "Cookies">>)
    ELSE IF Stat(disk, <<root, app, "Default/Network", "Cookies">>)
      THEN Found(<<root, app, "Default/Network", "Cookies">>)
    ELSE NotFound(<<"cookies database not found", name>>)

findChromiumCookiesPath(goos, disk, config) ==
    IF goos = osDarwin
      THEN IF ~Stat(disk, <<MacSupport, config.macOSPath, "", "">>)
             THEN NotFound(<<"not found. Is it installed?", config.name>>)
             ELSE Probe(disk, MacSupport, config.macOSPath, config.name)
    ELSE IF goos = osLinux
      THEN IF config.linuxPath = ""
             THEN NotFound(<<"is not available on Linux", config.name>>)
           ELSE IF ~Stat(disk, <<LinuxConfig, config.linuxPath, "", "">>)
             THEN NotFound(<<"not found. Is it installed?", config.name>>)
           ELSE Probe(disk, LinuxConfig, config.linuxPath, config.name)
    ELSE NotFound(<<"cookie extraction not supported on", config.name, goos>>)

\* findChromeCookiesPath of browser_chrome.go: on Linux the Chrome directory,
\* then the Chromium directory.
findChromeCookiesPath(goos, disk) ==
    IF goos = osDarwin THEN Probe(disk, MacSupport, "Google/Chrome", "Chrome")
    ELSE IF goos = osLinux
      THEN IF Stat(disk, <<LinuxConfig, "google-chrome", "", "">>)
             THEN Probe(disk, LinuxConfig, "google-chrome", "Chrome")
           ELSE IF Stat(disk, <<LinuxConfig, "chromium", "", "">>)
             THEN Probe(disk, LinuxConfig, "chromium", "Chrome")
           ELSE NotFound(<<"Chrome/Chromium config not found. Is Chrome installed?">>)
    ELSE NotFound(<<"cookie extraction not supported on", "Chrome", goos>>)

(***************************************************************************)
(* The decryption key.  pbkdf2.Key is a library function; its stand-in is  *)
(* a function of the password, the salt and the iteration count that gives *)
(* keyLen bytes.  A command result is what cmd.Output() returns.           *)
(***************************************************************************)
RECURSIVE SumBytes(_)
SumBytes(s) == IF s = <<>> THEN 0 ELSE Head(s) + SumBytes(Tail(s))

pbkdf2Key(password, salt, iter, keyLen) ==
    [k \in 1..keyLen |-> (SumBytes(password) + SumBytes(salt) + iter + k) % 256]

saltysalt == <<115, 97, 108, 116, 121, 115, 97, 108, 116>>

peanuts == <<112, 101, 97, 110, 117, 116, 115>>

MacIterations == 1003

LinuxIterations == 1

KeyLength == 16

NoKey == <<>>

getChromiumKeyMacOSFallback(config, cmd) ==
    IF cmd.err # NoError
      THEN [key |-> pbkdf2Key(peanuts, saltysalt, MacIterations, KeyLength), err |-> NoError]
      ELSE [key |-> pbkdf2Key(TrimSpace(cmd.output), saltysalt, MacIterations, KeyLength),
            err |-> NoError]

getChromiumKeyMacOS(config, cmd) ==
    IF cmd.err # NoError
      THEN [key |-> NoKey, err |-> <<"failed to get key from Keychain", config.name>> \o cmd.err]
      ELSE [key |-> pbkdf2Key(TrimSpace(cmd.output), saltysalt, MacIterations, KeyLength),
            err |-> NoError]

getChromiumKeyLinux(config, cmd) ==
    IF cmd.err = NoError /\ Len(cmd.output) > 0
      THEN [key |-> pbkdf2Key(TrimSpace(cmd.output), saltysalt, LinuxIterations, KeyLength),
            err |-> NoError]
      ELSE [key |-> pbkdf2Key(peanuts, saltysalt, LinuxIterations, KeyLength), err |-> NoError]

getChromiumDecryptionKey(goos, config, cmd) ==
    IF goos = osDarwin THEN getChromiumKeyMacOS(config, cmd)
    ELSE IF goos = osLinux THEN getChromiumKeyLinux(config, cmd)
    ELSE [key |-> NoKey, err |-> <<"decryption not supported on", goos>>]

(***************************************************************************)
(* The cookies database.  The content of a file is an SQLite database with *)
(* the cookies table of Chromium or the moz_cookies table of Firefox, each *)
(* a list of rows, or something else.  A row scans unless a column that is *)
(* read into a string holds NULL.                                          *)
(***************************************************************************)
NotADatabase == [kind |-> "garbage", rows |-> <<>>]

ChromiumDB(rows) == [kind |-> "chromium", rows |-> rows]

FirefoxDB(rows) == [kind |-> "firefox", rows |-> rows]

ChromiumRow(name, encrypted, host, expires, scans) ==
    [name |-> name, encrypted_value |-> encrypted, host_key |-> host,
     expires_utc |-> expires, scans |-> scans]

FirefoxRow(name, value, host, expiry, scans) ==
    [name |-> name, value |-> value, host |-> host, expiry |-> expiry, scans |-> scans]

LinkedInCom == <<108, 105, 110, 107, 101, 100, 105, 110, 46, 99, 111, 109>>

HasSuffix(s, suffix) ==
    Len(s) >= Len(suffix) /\ SubSeq(s, Len(s) - Len(suffix) + 1, Len(s)) = suffix

\* dbPath + "?mode=ro"
DSN(dbPath) == [path |-> dbPath, mode |-> "ro"]

NoHandle == [path |-> NoPath, mode |-> ""]

\* sql.Open: the handle names the file and the mode; nothing is read yet.
sqlOpen(dsn) == dsn

\* What the database handle reads: the content of the file it names.
Content(disk, db) ==
    IF disk[db.path].kind = "file" THEN disk[db.path].data ELSE NotADatabase

ErrQueryCookies == <<"failed to query cookies">>

ErrNoLinkedInCookies(browserName) ==
    <<"no LinkedIn cookies found. Make sure you're logged into LinkedIn", browserName>>

rccStepSkipFailed(goos, cookies, row, key) ==
    IF ~row.scans THEN cookies
    ELSE LET d == decryptChromeCookie(goos, row.encrypted_value, key)
         IN  IF d.err # NoError THEN cookies
             ELSE Append(cookies, CookieOf(row.host_key, row.name, d.out,
                                           chromeTimeToUnix(row.expires_utc)))

\* One row of the result: a row that does not scan is skipped; a value that
\* does not decrypt is taken as it is stored.
rccStep(goos, cookies, row, key) ==
    IF ~row.scans THEN cookies
    ELSE LET d == decryptChromeCookie(goos, row.encrypted_value, key)
             value == IF d.err # NoError THEN row.encrypted_value ELSE d.out
         IN  Append(cookies, CookieOf(row.host_key, row.name, value,
                                       chromeTimeToUnix(row.expires_utc)))

RECURSIVE rccLoop(_, _, _, _)
rccLoop(goos, cookies, rows, key) ==
    IF rows = <<>> THEN cookies
    ELSE rccLoop(goos, rccStep(goos, cookies, Head(rows), key), Tail(rows), key)

\* readChromiumCookies on the content the handle reads.
readChromiumCookies(goos, data, key, browserName) ==
    IF data.kind # "chromium" THEN [cookies |-> <<>>, err |-> ErrQueryCookies]
    ELSE LET matching == SelectSeq(data.rows, LAMBDA r : HasSuffix(r.host_key, LinkedInCom))
             cookies == rccLoop(goos, <<>>, matching, key)
         IN  IF Len(cookies) = 0
               THEN [cookies |-> <<>>, err |-> ErrNoLinkedInCookies(browserName)]
               ELSE [cookies |-> cookies, err |-> NoError]

rfcStep(cookies, row) ==
    IF ~row.scans THEN cookies
    ELSE Append(cookies, CookieOf(row.host, row.name, row.value, timeUnix(row.expiry)))

RECURSIVE rfcLoop(_, _)
rfcLoop(cookies, rows) ==
    IF rows = <<>> THEN cookies ELSE rfcLoop(rfcStep(cookies, Head(rows)), Tail(rows))

readFirefoxCookies(data) ==
    IF data.kind # "firefox" THEN [cookies |-> <<>>, err |-> ErrQueryCookies]
    ELSE LET matching == SelectSeq(data.rows, LAMBDA r : HasSuffix(r.host, LinkedInCom))
             cookies == rfcLoop(<<>>, matching)
         IN  IF Len(cookies) = 0
               THEN [cookies |-> <<>>, err |-> ErrNoLinkedInCookies("Firefox")]
               ELSE [cookies |-> cookies, err |-> NoError]

(***************************************************************************)
(* The Firefox profile.  A directory entry is a name; its bytes decide     *)
(* whether it is taken for the default profile.                            *)
(***************************************************************************)
Dot == 46

DotDefault == <<46, 100, 101, 102, 97, 117, 108, 116>>

DotDefaultRelease == DotDefault \o <<45, 114, 101, 108, 101, 97, 115, 101>>

EntryOrder == <<"Crash Reports", "a.default", "b.default-release", "profile", "profiles.ini">>

Bytes(name) ==
    CASE name = "Crash Reports" ->
             <<67, 114, 97, 115, 104, 32, 82, 101, 112, 111, 114, 116, 115>>
      [] name = "a.default" -> <<ChA>> \o DotDefault
      [] name = "b.default-release" -> <<ChB>> \o DotDefaultRelease
      [] name = "profile" -> <<112, 114, 111, 102, 105, 108, 101>>
      [] name = "profiles.ini" -> <<112, 114, 111, 102, 105, 108, 101, 115, 46, 105, 110, 105>>

\* filepath.Ext: the suffix that begins at the last dot, or nothing.
RECURSIVE Ext(_)
Ext(s) ==
    IF s = <<>> THEN <<>>
    ELSE IF Dot \in {s[k] : k \in 2..Len(s)} THEN Ext(Tail(s))
    ELSE IF Head(s) = Dot THEN s
    ELSE <<>>

Suffix(s, n) == SubSeq(s, Len(s) - n + 1, Len(s))

\* The test of line 69-70 on a name: "yes", "no", or "panic" when
\* name[len(name)-16:] is evaluated on a name shorter than 16 bytes.
IsDefaultProfile(s) ==
    IF Ext(s) = DotDefault \/ Ext(s) = DotDefaultRelease THEN "yes"
    ELSE IF Len(s) > 8
      THEN IF Suffix(s, 8) = DotDefault THEN "yes"
           ELSE IF Len(s) < 16 THEN "panic"
           ELSE IF Suffix(s, 16) = DotDefaultRelease THEN "yes"
           ELSE "no"
    ELSE "no"

FirefoxProfiles(goos) ==
    IF goos = osDarwin THEN <<MacSupport, "Firefox/Profiles">> ELSE <<".mozilla", "firefox">>

ProfilePath(dir, name, file) == <<dir[1], dir[2], name, file>>

\* os.ReadDir: the entries that exist, sorted by name.
osReadDir(disk, dir) ==
    SelectSeq(EntryOrder, LAMBDA n : disk[ProfilePath(dir, n, "")] # Absent)

Panic == [path |-> NoPath, err |-> <<"panic: slice bounds out of range">>, panic |-> TRUE]

Profile(path) == [path |-> path, err |-> NoError, panic |-> FALSE]

NoProfile(err) == [path |-> NoPath, err |-> err, panic |-> FALSE]

\* The fallback loop: the first directory that holds a cookies.sqlite.
RECURSIVE ffpFallback(_, _, _)
ffpFallback(disk, dir, entries) ==
    IF entries = <<>> THEN NoProfile(<<"no Firefox profile found">>)
    ELSE IF /\ disk[ProfilePath(dir, Head(entries), "")].kind = "dir"
            /\ Stat(disk, ProfilePath(dir, Head(entries), "cookies.sqlite"))
      THEN Profile(ProfilePath(dir, Head(entries), ""))
    ELSE ffpFallback(disk, dir, Tail(entries))

\* The first loop: the first directory whose name passes the test.
RECURSIVE ffpDefault(_, _, _, _)
ffpDefault(disk, dir, entries, all) ==
    IF entries = <<>> THEN ffpFallback(disk, dir, all)
    ELSE IF disk[ProfilePath(dir, Head(entries), "")].kind # "dir"
      THEN ffpDefault(disk, dir, Tail(entries), all)
    ELSE LET t == IsDefaultProfile(Bytes(Head(entries)))
         IN  IF t = "yes" THEN Profile(ProfilePath(dir, Head(entries), ""))
             ELSE IF t = "panic" THEN Panic
             ELSE ffpDefault(disk, dir, Tail(entries), all)

findFirefoxProfile(goos, disk) ==
    IF goos \notin {osDarwin, osLinux}
      THEN NoProfile(<<"Firefox cookie extraction not supported on", goos>>)
    ELSE LET dir == FirefoxProfiles(goos)
             d == disk[ProfilePath(dir, "", "")]
         IN  IF d = Absent
               THEN NoProfile(<<"Firefox profiles directory not found. Is Firefox installed?">>)
             ELSE IF d.kind # "dir" \/ ~d.readable
               THEN NoProfile(Wrap("failed to read Firefox profiles", ErrPermission))
             ELSE ffpDefault(disk, dir, osReadDir(disk, dir), osReadDir(disk, dir))

(***************************************************************************)
(* Safari: Cookies.binarycookies.  Offsets count from 0 as in the source;  *)
(* byte k of the source is element k + 1 of the sequence.  A 32-bit field  *)
(* is read only where its value is below 2^31.                             *)
(***************************************************************************)
Cook == <<99, 111, 111, 107>>

ReadBE32(data, off) ==
    data[off + 1] * 16777216 + data[off + 2] * 65536 + data[off + 3] * 256 + data[off + 4]

ReadLE32(data, off) ==
    data[off + 1] + data[off + 2] * 256 + data[off + 3] * 65536 + data[off + 4] * 16777216

\* int64(f) of the float64 in the 8 little-endian bytes at off: the sign, 11
\* bits of exponent, and the leading 20 bits of the fraction, which hold every
\* whole second of a value below 2^21.
Float64ToInt(data, off) ==
    LET hi == data[off + 8]
        exponent == (hi % 128) * 16 + data[off + 7] \div 16
        fraction == (data[off + 7] % 16) * 65536 + data[off + 6] * 256 + data[off + 5]
        magnitude == IF exponent < 1023 THEN 0
                     ELSE (1048576 + fraction) \div 2 ^ (20 - (exponent - 1023))
    IN  IF hi >= 128 THEN 0 - magnitude ELSE magnitude

macEpoch == timeUnix(MacEpochSeconds)

\* readNullTerminatedString(data, offset)
RECURSIVE UpToNul(_)
UpToNul(s) == IF s = <<>> \/ Head(s) = 0 THEN <<>> ELSE <<Head(s)>> \o UpToNul(Tail(s))

readNullTerminatedString(data, offset) ==
    IF offset >= Len(data) THEN <<>> ELSE UpToNul(SubSeq(data, offset + 1, Len(data)))

\* A uint32 of the full range: hi is its top bit, lo the other 31 bits.
Uint32(hi, lo) == [hi |-> hi, lo |-> lo]

\* int(u) < n for a length n, where int has intSize bits: with 32 bits a value
\* with the top bit set converts to a negative int.
IntLess(intSize, u, n) == IF u.hi = 1 THEN intSize = 32 ELSE u.lo < n

\* readNullTerminatedString(data, offset) for every uint32 offset on a build
\* whose int has intSize bits.  With the top bit set and 32-bit int, the
\* first test does not return and data[end] is indexed out of range.
readNullTerminatedStringOn(intSize, data, offset) ==
    IF ~IntLess(intSize, offset, Len(data)) THEN [out |-> <<>>, panic |-> FALSE]
    ELSE IF offset.hi = 1 THEN [out |-> <<>>, panic |-> TRUE]
    ELSE [out |-> readNullTerminatedString(data, offset.lo), panic |-> FALSE]

\* strings.Contains
Contains(s, substr) ==
    \E i \in 1..(Len(s) - Len(substr) + 1) : SubSeq(s, i, i + Len(substr) - 1) = substr

NoCookie == [Domain |-> <<>>, Name |-> <<>>, Value |-> <<>>, ExpiresAt |-> ZeroTime,
             nil |-> TRUE]

ErrCookieTooShort == <<"cookie data too short">>

parseCookieNoFilter(data, domainFilter) ==
    IF Len(data) < 48 THEN [cookie |-> NoCookie, err |-> ErrCookieTooShort]
    ELSE [cookie |-> CookieOf(readNullTerminatedString(data, ReadLE32(data, 16)),
                              readNullTerminatedString(data, ReadLE32(data, 20)),
                              readNullTerminatedString(data, ReadLE32(data, 28)),
                              macEpoch + Float64ToInt(data, 40)),
          err |-> NoError]

\* parseCookie(data, domainFilter): a cookie, nil for a domain that does not
\* pass the filter, or an error.
parseCookie(data, domainFilter) ==
    IF Len(data) < 48 THEN [cookie |-> NoCookie, err |-> ErrCookieTooShort]
    ELSE LET domain == readNullTerminatedString(data, ReadLE32(data, 16))
             name == readNullTerminatedString(data, ReadLE32(data, 20))
             value == readNullTerminatedString(data, ReadLE32(data, 28))
             expiration == Float64ToInt(data, 40)
         IN  IF domainFilter # <<>> /\ ~Contains(domain, domainFilter)
               THEN [cookie |-> NoCookie, err |-> NoError]
               ELSE [cookie |-> CookieOf(domain, name, value, macEpoch + expiration),
                     err |-> NoError]

\* The offset table of a page: an offset that cannot be read stays 0.
pcpOffset(data, i) == IF 8 + 4 * i + 4 <= Len(data) THEN ReadLE32(data, 8 + 4 * i) ELSE 0

RECURSIVE pcpLoop(_, _, _, _, _)
pcpLoop(data, domainFilter, i, numCookies, cookies) ==
    IF i >= numCookies THEN cookies
    ELSE LET offset == pcpOffset(data, i)
             r == parseCookie(SubSeq(data, offset + 1, Len(data)), domainFilter)
         IN  IF offset >= Len(data) \/ r.err # NoError \/ r.cookie = NoCookie
               THEN pcpLoop(data, domainFilter, i + 1, numCookies, cookies)
               ELSE pcpLoop(data, domainFilter, i + 1, numCookies, Append(cookies, r.cookie))

ErrPageTooShort == <<"page too short">>

\* parseCookiePage(data, domainFilter)
parseCookiePage(data, domainFilter) ==
    IF Len(data) < 8 THEN [cookies |-> <<>>, err |-> ErrPageTooShort]
    ELSE [cookies |-> pcpLoop(data, domainFilter, 0, ReadLE32(data, 4), <<>>),
          err |-> NoError]

ErrFileTooShort == <<"invalid cookie file: too short">>
ErrBadMagic == <<"invalid cookie file: bad magic bytes">>
ErrPageCount == <<"failed to read page count">>
ErrPageSize == <<"failed to read page size">>
ErrReadPage == <<"failed to read page">>

\* The pages, one after the other from offset off.  Reader.Read fails at the
\* end of the data, and otherwise fills the page with the bytes that are
\* left; what it does not fill stays zero.  A page that does not parse is
\* skipped.
RECURSIVE pbcPages(_, _, _, _, _, _)
pbcPages(data, domainFilter, i, numPages, off, cookies) ==
    IF i >= numPages THEN [cookies |-> cookies, err |-> NoError]
    ELSE IF off >= Len(data) THEN [cookies |-> <<>>, err |-> ErrReadPage]
    ELSE LET size == ReadBE32(data, 8 + 4 * i)
             n == IF size <= Len(data) - off THEN size ELSE Len(data) - off
             pageData == SubSeq(data, off + 1, off + n) \o Rep(0, size - n)
             page == parseCookiePage(pageData, domainFilter)
         IN  pbcPages(data, domainFilter, i + 1, numPages, off + n,
                      IF page.err # NoError THEN cookies ELSE cookies \o page.cookies)

parseBinaryCookiesDataAnyMagic(data, domainFilter) ==
    IF Len(data) < 8 THEN [cookies |-> <<>>, err |-> ErrPageCount]
    ELSE LET numPages == ReadBE32(data, 4)
         IN  IF numPages > (Len(data) - 8) \div 4
               THEN [cookies |-> <<>>, err |-> ErrPageSize]
               ELSE pbcPages(data, domainFilter, 0, numPages, 8 + 4 * numPages, <<>>)

\* parseBinaryCookiesData(data, domainFilter)
parseBinaryCookiesData(data, domainFilter) ==
    IF Len(data) < 4 THEN [cookies |-> <<>>, err |-> ErrFileTooShort]
    ELSE IF SubSeq(data, 1, 4) # Cook THEN [cookies |-> <<>>, err |-> ErrBadMagic]
    ELSE IF Len(data) < 8 THEN [cookies |-> <<>>, err |-> ErrPageCount]
    ELSE LET numPages == ReadBE32(data, 4)
         IN  IF numPages > (Len(data) - 8) \div 4
               THEN [cookies |-> <<>>, err |-> ErrPageSize]
               ELSE pbcPages(data, domainFilter, 0, numPages, 8 + 4 * numPages, <<>>)

SafariCookies == <<"Library", "Cookies", "", "Cookies.binarycookies">>

\* parseBinaryCookies(path, "linkedin.com"), which extractSafariCookies calls.
parseBinaryCookies(disk, path, domainFilter) ==
    LET r == osReadFile(disk, path)
    IN  IF r.err = ErrNotExist
          THEN [cookies |-> <<>>, err |-> <<"Safari cookies file not found at">> \o <<path>>]
        ELSE IF r.err = ErrPermission
          THEN [cookies |-> <<>>, err |-> <<"permission denied reading Safari cookies">>]
        ELSE IF r.err # NoError
          THEN [cookies |-> <<>>, err |-> Wrap("failed to read cookies file", r.err)]
        ELSE parseBinaryCookiesData(r.data, domainFilter)

(***************************************************************************)
(* LoginWithCredentials: getLoginTokens, then submitLogin.                 *)
(*                                                                         *)
(* A response of the server is its status, the kind of its Location header *)
(* and, for the login page, the tokens its body carries.  The cookie jar   *)
(* is the list Jar.Cookies returns for https://www.linkedin.com; both      *)
(* loops of submitLogin read it for that same URL.                         *)
(***************************************************************************)
maxRedirects == 10

StatusOK == 200
StatusFound == 302
StatusServerError == 500

LocNone == "none"
LocChallenge == "/checkpoint/challenge"
LocSecurity == "security-verification"
LocOther == "other"

ErrGetLoginPage == <<"failed to get login page">>
ErrLoginRequest == <<"login request failed">>
ErrRedirect == <<"redirect failed">>
ErrChallenge == <<"login failed: LinkedIn requires verification">>
ErrSecurity == <<"login failed: security verification required">>
ErrInvalidLogin == <<"login failed: invalid email or password">>
ErrNoJSess == <<"login partially succeeded but JSESSIONID not received">>

IsRedirect(resp) == resp.status >= 300 /\ resp.status < 400

\* First loop over the jar: every li_at and JSESSIONID cookie is taken.
slFirstStep(creds, cookie) ==
    IF cookie.Name = LiAtName
      THEN [creds EXCEPT !.LiAt = cookie.Value,
                         !.ExpiresAt = IF ~IsZero(cookie.ExpiresAt)
                                         THEN cookie.ExpiresAt ELSE @]
    ELSE IF cookie.Name = JSessName
      THEN [creds EXCEPT !.JSessID = cookie.Value,
                         !.CSRFToken = Trim(cookie.Value, {Quote})]
    ELSE creds

\* Second loop ("also check www subdomain"): only fields still empty are set.
slSecondStep(creds, cookie) ==
    IF cookie.Name = LiAtName
      THEN IF creds.LiAt = EmptyStr
             THEN [creds EXCEPT !.LiAt = cookie.Value,
                                !.ExpiresAt = IF ~IsZero(cookie.ExpiresAt)
                                                THEN cookie.ExpiresAt ELSE @]
             ELSE creds
    ELSE IF cookie.Name = JSessName
      THEN IF creds.JSessID = EmptyStr
             THEN [creds EXCEPT !.JSessID = cookie.Value,
                                !.CSRFToken = Trim(cookie.Value, {Quote})]
             ELSE creds
    ELSE creds

RECURSIVE slFirstLoop(_, _)
slFirstLoop(creds, cookies) ==
    IF cookies = <<>> THEN creds
    ELSE slFirstLoop(slFirstStep(creds, Head(cookies)), Tail(cookies))

RECURSIVE slSecondLoop(_, _)
slSecondLoop(creds, cookies) ==
    IF cookies = <<>> THEN creds
    ELSE slSecondLoop(slSecondStep(creds, Head(cookies)), Tail(cookies))

\* The end of submitLogin: the credentials are read from the jar.
slCredentials(jar) ==
    LET creds == slSecondLoop(slFirstLoop(EmptyCredentials, jar), jar)
    IN  IF creds.LiAt = EmptyStr THEN [creds |-> Nil, err |-> ErrInvalidLogin]
        ELSE IF creds.JSessID = EmptyStr THEN [creds |-> Nil, err |-> ErrNoJSess]
        ELSE [creds |-> creds, err |-> NoError]

(***************************************************************************)
(* The API client.  A Client is its credentials, nil or set.  Do gives the *)
(* requests it sent and its error; an api.Error is its code and message.   *)
(* time.Now() is read when the request is built and again when the headers *)
(* are set.                                                                *)
(***************************************************************************)
ErrCodeAuthRequired == "AUTH_REQUIRED"

Request(method, requireAuth) == [Method |-> method, RequireAuth |-> requireAuth]

HasCredentialsNonNil(credentials, now) == credentials # Nil

HasCredentials(credentials, now) == credentials # Nil /\ IsValid(credentials, now)

\* setHeaders: the authentication headers of the request.
setHeaders(credentials, req, later) ==
    IF credentials # Nil /\ IsValid(credentials, later)
      THEN [Method |-> req.Method,
            Cookie |-> <<credentials.LiAt, credentials.JSessID>>,
            CsrfToken |-> IF credentials.CSRFToken = EmptyStr
                            THEN Trim(credentials.JSessID, {Quote})
                            ELSE credentials.CSRFToken]
      ELSE [Method |-> req.Method, Cookie |-> <<>>, CsrfToken |-> EmptyStr]

buildRequest(credentials, req, now, later) ==
    IF req.RequireAuth /\ ~HasCredentials(credentials, now)
      THEN [httpReq |-> Nil,
            err |-> <<ErrCodeAuthRequired, "authentication required. Run: lnk auth login">>]
      ELSE [httpReq |-> setHeaders(credentials, req, later), err |-> NoError]

\* handleResponse and handleErrorResponse on the status of the answer.
handleResponse(status) ==
    IF status = StatusFound THEN <<"AUTH_EXPIRED", "session redirect detected">>
    ELSE IF status = 401 THEN <<"AUTH_EXPIRED", "session expired">>
    ELSE IF status >= 400 THEN <<"SERVER_ERROR", "request failed with status">>
    ELSE NoError

\* Do(ctx, req, result); answer is what the transport gives: a status, or 0
\* for an error of the network.
Do(credentials, req, now, later, answer) ==
    LET b == buildRequest(credentials, req, now, later)
    IN  IF b.err # NoError THEN [requests |-> <<>>, err |-> b.err]
        ELSE IF answer = 0
          THEN [requests |-> <<b.httpReq>>, err |-> <<"NETWORK_ERROR", "network error">>]
        ELSE [requests |-> <<b.httpReq>>, err |-> handleResponse(answer)]

Get(credentials, now, later, answer) ==
    Do(credentials, Request("GET", TRUE), now, later, answer)

Post(credentials, now, later, answer) ==
    Do(credentials, Request("POST", TRUE), now, later, answer)

Delete(credentials, now, later, answer) ==
    Do(credentials, Request("DELETE", TRUE), now, later, answer)

(***************************************************************************)
(* Inputs                                                                  *)
(***************************************************************************)
Values == {EmptyStr, <<ChA>>, <<Quote, ChB, Quote>>}

\* The two required cookies with each value and no expiry, one of each with an
\* expiry, and a cookie of another name.
CookieSet ==
    {Cookie(n, v, ZeroTime) : n \in {LiAtName, JSessName}, v \in Values}
    \cup {Cookie(LiAtName, <<ChA>>, 2), Cookie(JSessName, <<Quote, ChB, Quote>>, 2),
          Cookie(OtherName, <<ChA>>, ZeroTime)}

CookieLists == SeqsUpTo(CookieSet, MaxCookies)

CredentialsSet ==
    {Credentials(l, j, Trim(j, {Quote}), e) : l \in Values, j \in Values, e \in 0..MaxTime}

\* The parts of a cookie string: name=value, tight or with spaces around the
\* name and the value, and three parts that are no pair.
PartValues == Values \cup {<<Quote, Quote, ChA, Quote>>}

Tight(n, v) == n \o <<Equals>> \o v

Spaced(n, v) == <<Space>> \o n \o <<Space, Equals, Space>> \o v \o <<Space>>

Parts ==
    {Tight(JSessName, v) : v \in PartValues}
    \cup {Tight(LiAtName, <<ChA>>), Tight(LiAtName, EmptyStr), Tight(OtherName, <<ChA>>),
          Spaced(LiAtName, <<ChA>>), Spaced(JSessName, <<Quote, ChB, Quote>>)}
    \cup {EmptyStr, <<ChA>>, <<Equals, ChA>>}

RECURSIVE Join(_, _)
Join(parts, c) ==
    IF parts = <<>> THEN EmptyStr
    ELSE IF Len(parts) = 1 THEN parts[1]
    ELSE parts[1] \o <<c>> \o Join(Tail(parts), c)

CookieStrings == {Join(ps, Semi) : ps \in SeqsUpTo(Parts, MaxParts)}

Environments ==
    [LNK_LI_AT : {EmptyStr, <<ChA>>}, LNK_JSESSIONID : Values, LNK_COOKIES : CookieStrings]

\* Messages: a run of one byte, then up to two more bytes; the bytes include
\* values that read as a padding length, zero, and one above the block size.
MsgBytes == {0, 1, 2, BlockSize, BlockSize + 1, ChA}

Messages ==
    {Rep(b, n) \o t : b \in {ChA, BlockSize}, n \in 0..MaxMsgLen, t \in SeqsUpTo(MsgBytes, 2)}

\* PKCS#7: p bytes of value p bring the length to the next multiple of BlockSize.
PKCS7Pad(m) == m \o Rep(BlockSize - (Len(m) % BlockSize), BlockSize - (Len(m) % BlockSize))

PaddedMessages == {PKCS7Pad(m) : m \in Messages}

RECURSIVE CBCEncrypt(_, _, _)
CBCEncrypt(key, prev, data) ==
    IF data = <<>> THEN <<>>
    ELSE LET c == BlockEncrypt(key, XorBytes(SubSeq(data, 1, BlockSize), prev))
         IN  c \o CBCEncrypt(key, c, SubSeq(data, BlockSize + 1, Len(data)))

\* A key as PBKDF2 derives it (16 bytes), another one, and the 3-byte "key"
\* of the tests, which aes.NewCipher rejects.
GoodKey == [k \in 1..16 |-> k]
OtherKey == [k \in 1..16 |-> 7]
BadKey == <<107, 101, 121>>

Keys == {GoodKey, OtherKey, BadKey}

GOOS == {osDarwin, osLinux, osWindows}

Plaintexts == {EmptyStr, <<ChA>>, <<Quote, ChB, Quote>>, Rep(ChA, 15), Rep(ChA, 16), Rep(ChB, 17)}

\* What follows a version marker: ciphertexts of padded plaintexts under
\* GoodKey, and runs of bytes of other lengths, the empty one included.
Payloads ==
    {CBCEncrypt(GoodKey, IV, PKCS7Pad(m)) : m \in Plaintexts}
    \cup {Rep(ChA, n) : n \in {0, 1, 15, 16, 17, 32}}

EncryptedValues ==
    {mk \o pl : mk \in {V10, V11, V12}, pl \in Payloads}
    \cup {EmptyStr, <<118>>, <<118, 49>>, <<ChA, ChB>>, Rep(ChA, 16), Rep(ChB, 20)}

(***************************************************************************)
(* Cookie stores on disk                                                   *)
(***************************************************************************)
SafeStoragePassword == <<ChA, ChB>>

MacKey == pbkdf2Key(SafeStoragePassword, saltysalt, MacIterations, KeyLength)

KeyringKey == pbkdf2Key(SafeStoragePassword, saltysalt, LinuxIterations, KeyLength)

PeanutsKey == pbkdf2Key(peanuts, saltysalt, LinuxIterations, KeyLength)

\* What the browser stores for a value: the marker, then the ciphertext.
Encrypted(marker, key, m) == marker \o CBCEncrypt(key, IV, PKCS7Pad(m))

WwwLinkedInCom == <<119, 119, 119, 46>> \o LinkedInCom

DotLinkedInCom == <<Dot>> \o LinkedInCom

ExampleCom == <<101, 120, 46, 99, 111, 109>>

\* A Chrome time two and a half seconds after the Unix epoch.
LaterChromeTime == epochDiff + 2 * MicrosPerSecond + MicrosPerSecond \div 2

MacStore ==
    ChromiumDB(<<ChromiumRow(LiAtName, Encrypted(V10, MacKey, <<ChA>>), WwwLinkedInCom,
                             LaterChromeTime, TRUE),
                 ChromiumRow(JSessName, Encrypted(V10, MacKey, <<Quote, ChB, Quote>>),
                             DotLinkedInCom, 0, TRUE)>>)

\* On Linux: values under the key of the static passphrase, marked v10.
PeanutsStore ==
    ChromiumDB(<<ChromiumRow(LiAtName, Encrypted(V10, PeanutsKey, <<ChA>>), WwwLinkedInCom,
                             0, TRUE),
                 ChromiumRow(JSessName, Encrypted(V10, PeanutsKey, <<Quote, ChB, Quote>>),
                             DotLinkedInCom, 0, TRUE)>>)

\* On Linux: values under the key of the keyring's password, marked v11.
KeyringStore ==
    ChromiumDB(<<ChromiumRow(LiAtName, Encrypted(V11, KeyringKey, <<ChA>>), WwwLinkedInCom,
                             0, TRUE),
                 ChromiumRow(JSessName, Encrypted(V11, KeyringKey, <<Quote, ChB, Quote>>),
                             DotLinkedInCom, 0, TRUE)>>)

\* A value too short to decrypt, and a value stored in the clear.
DamagedStore ==
    ChromiumDB(<<ChromiumRow(LiAtName, V10 \o <<ChA>>, WwwLinkedInCom, 0, TRUE),
                 ChromiumRow(JSessName, <<ChB>>, DotLinkedInCom, 0, TRUE)>>)

\* No row of the target domain.
ForeignStore == ChromiumDB(<<ChromiumRow(LiAtName, <<ChA>>, ExampleCom, 0, TRUE)>>)

ChromiumStores ==
    {NotADatabase, ForeignStore, MacStore, PeanutsStore, KeyringStore, DamagedStore}

FirefoxStore ==
    FirefoxDB(<<FirefoxRow(LiAtName, <<ChA>>, WwwLinkedInCom, 0, TRUE),
                FirefoxRow(JSessName, <<Quote, ChB, Quote>>, DotLinkedInCom, 2, TRUE)>>)

FirefoxForeignStore == FirefoxDB(<<FirefoxRow(LiAtName, <<ChA>>, ExampleCom, 0, TRUE)>>)

FirefoxStores == {NotADatabase, FirefoxForeignStore, FirefoxStore}

(***************************************************************************)
(* Binary cookie files as Safari writes them.                              *)
(***************************************************************************)
LE32(n) == <<n % 256, (n \div 256) % 256, (n \div 65536) % 256, n \div 16777216>>

BE32(n) == <<n \div 16777216, (n \div 65536) % 256, (n \div 256) % 256, n % 256>>

\* The float64 values 0.0 and 2.0, little-endian.
FloatZero == Rep(0, 8)

FloatTwo == Rep(0, 7) \o <<64>>

\* A cookie record: the 56-byte header, then the four NUL-terminated strings.
CookieRecord(domain, name, value, expiration) ==
    LET domainOffset == 56
        nameOffset == domainOffset + Len(domain) + 1
        pathOffset == nameOffset + Len(name) + 1
        valueOffset == pathOffset + 2
        size == valueOffset + Len(value) + 1
    IN  LE32(size) \o LE32(0) \o LE32(1) \o LE32(0)
            \o LE32(domainOffset) \o LE32(nameOffset) \o LE32(pathOffset) \o LE32(valueOffset)
            \o Rep(0, 8) \o expiration \o FloatZero
            \o domain \o <<0>> \o name \o <<0>> \o <<47, 0>> \o value \o <<0>>

RECURSIVE RecordOffsets(_, _)
RecordOffsets(records, off) ==
    IF records = <<>> THEN <<>>
    ELSE LE32(off) \o RecordOffsets(Tail(records), off + Len(Head(records)))

RECURSIVE Concat(_)
Concat(seqs) == IF seqs = <<>> THEN <<>> ELSE Head(seqs) \o Concat(Tail(seqs))

\* A page: the header, the number of records, their offsets, the footer, the records.
Page(records) ==
    <<0, 0, 1, 0>> \o LE32(Len(records)) \o RecordOffsets(records, 12 + 4 * Len(records))
        \o Rep(0, 4) \o Concat(records)

RECURSIVE PageSizes(_)
PageSizes(pages) ==
    IF pages = <<>> THEN <<>> ELSE BE32(Len(Head(pages))) \o PageSizes(Tail(pages))

BinaryCookies(pages) ==
    Cook \o BE32(Len(pages)) \o PageSizes(pages) \o Concat(pages) \o Rep(0, 8)

SafariStore ==
    BinaryCookies(<<Page(<<CookieRecord(DotLinkedInCom, LiAtName, <<ChA>>, FloatTwo),
                           CookieRecord(ExampleCom, LiAtName, <<ChB>>, FloatZero)>>),
                    Page(<<CookieRecord(WwwLinkedInCom, JSessName, <<Quote, ChB, Quote>>,
                                        FloatZero)>>)>>)

SafariForeignStore ==
    BinaryCookies(<<Page(<<CookieRecord(ExampleCom, LiAtName, <<ChB>>, FloatZero)>>)>>)

\* The magic bytes are damaged.
SafariDamagedStore == <<ChA>> \o Tail(SafariStore)

\* The li_at cookie is a session cookie: its expiration is 0.
SafariSessionStore ==
    BinaryCookies(<<Page(<<CookieRecord(DotLinkedInCom, LiAtName, <<ChA>>, FloatZero),
                           CookieRecord(WwwLinkedInCom, JSessName, <<Quote, ChB, Quote>>,
                                        FloatTwo)>>)>>)

SafariStores == {SafariStore, SafariForeignStore, SafariDamagedStore, SafariSessionStore}

\* The records of the pages below: what a record holds, and its bytes.
Record(domain, name, value, seconds) ==
    [domain |-> domain, name |-> name, value |-> value, seconds |-> seconds]

RecordBytes(r) ==
    CookieRecord(r.domain, r.name, r.value, IF r.seconds = 2 THEN FloatTwo ELSE FloatZero)

RecordsBytes(records) == [i \in DOMAIN records |-> RecordBytes(records[i])]

\* A page as the writer laid it out, with the records it holds.
GoodPage(records) ==
    [bytes |-> Page(RecordsBytes(records)), records |-> records, wellFormed |-> TRUE]

CorruptPage(bytes) == [bytes |-> bytes, records |-> <<>>, wellFormed |-> FALSE]

\* Two well-formed pages; a page shorter than its 8-byte header; a page whose
\* only offset points past its end; a page whose only offset leaves less than
\* a record header.
PageSet ==
    {GoodPage(<<Record(DotLinkedInCom, LiAtName, <<ChA>>, 2),
                Record(ExampleCom, LiAtName, <<ChB>>, 0)>>),
     GoodPage(<<Record(WwwLinkedInCom, JSessName, <<Quote, ChB, Quote>>, 0)>>),
     CorruptPage(<<0, 0, 1, 0>>),
     CorruptPage(<<0, 0, 1, 0>> \o LE32(1) \o LE32(200) \o Rep(0, 4)),
     CorruptPage(<<0, 0, 1, 0>> \o LE32(1) \o LE32(12) \o Rep(0, 4))}

PageLists == SeqsUpTo(PageSet, MaxPages)

PagesBytes(pages) == [i \in DOMAIN pages |-> pages[i].bytes]

\* The file as written, the file without what follows the last page, the file
\* cut where the last page begins, two bytes into the last page, or within
\* the page table; a file with one byte of the magic changed; a file shorter
\* than the magic.
Cuts == {"whole", "noTrailer", "beforeLast", "inLast", "inTable"}

Damages == {"magic1", "magic2", "magic3", "magic4", "short", "empty"}

Variants == Cuts \cup Damages

DamagedMagic(k) == [Cook EXCEPT ![k] = ChA]

FileBytes(pages, variant) ==
    LET table == BE32(Len(pages)) \o PageSizes(PagesBytes(pages))
        body == Concat(PagesBytes(pages))
        lastStart == IF pages = <<>> THEN 0 ELSE Len(body) - Len(pages[Len(pages)].bytes)
        whole == table \o body \o Rep(0, 8)
    IN  CASE variant = "whole" -> Cook \o whole
          [] variant = "noTrailer" -> Cook \o table \o body
          [] variant = "beforeLast" -> Cook \o table \o SubSeq(body, 1, lastStart)
          [] variant = "inLast" ->
                 Cook \o table \o SubSeq(body, 1, IF pages = <<>> THEN 0 ELSE lastStart + 2)
          [] variant = "inTable" -> Cook \o SubSeq(table, 1, Len(table) - 2)
          [] variant = "magic1" -> DamagedMagic(1) \o whole
          [] variant = "magic2" -> DamagedMagic(2) \o whole
          [] variant = "magic3" -> DamagedMagic(3) \o whole
          [] variant = "magic4" -> DamagedMagic(4) \o whole
          [] variant = "short" -> SubSeq(Cook, 1, 3)
          [] variant = "empty" -> <<>>

\* The domain filter of the call: the one extractSafariCookies passes, another
\* one, and none.
DomainFilters == {LinkedInCom, ExampleCom, EmptyStr}

MacApps == {"Google/Chrome", "Chromium", "Arc"}

LinuxApps == {"google-chrome", "chromium"}

Apps(goos) == IF goos = osDarwin THEN MacApps ELSE IF goos = osLinux THEN LinuxApps ELSE {}

Root(goos) == IF goos = osDarwin THEN MacSupport ELSE LinuxConfig

EntryNames == {EntryOrder[k] : k \in DOMAIN EntryOrder}

\* The entries that are directories; profiles.ini is a file.
ProfileNames == EntryNames \ {"profiles.ini"}

TempPath(k) == <<"tmp", "", "", ToString(k)>>

TempPaths == {TempPath(k) : k \in 1..MaxTemps}

StorePaths ==
    {<<MacSupport, a, "Default", "Cookies">> : a \in MacApps}
    \cup {<<MacSupport, a, "Default/Network", "Cookies">> : a \in MacApps}
    \cup {<<LinuxConfig, a, "Default", "Cookies">> : a \in LinuxApps}
    \cup {<<LinuxConfig, a, "Default/Network", "Cookies">> : a \in LinuxApps}
    \cup {ProfilePath(FirefoxProfiles(o), n, "cookies.sqlite") :
              o \in {osDarwin, osLinux}, n \in ProfileNames}
    \cup {SafariCookies}

DirectoryPaths ==
    {<<MacSupport, a, "", "">> : a \in MacApps}
    \cup {<<LinuxConfig, a, "", "">> : a \in LinuxApps}
    \cup {ProfilePath(FirefoxProfiles(o), n, "") :
              o \in {osDarwin, osLinux}, n \in EntryNames \cup {""}}

\* Everything below the home directory that the engine does not own.
LivePaths == StorePaths \cup DirectoryPaths

Paths == LivePaths \cup TempPaths

EmptyDisk == [p \in Paths |-> Absent]

PrimaryStates ==
    {Absent, Directory, File(MacStore, FALSE)} \cup {File(d, TRUE) : d \in ChromiumStores}

NetworkStates == {Absent, File(MacStore, TRUE)}

\* One installed Chromium-family browser with its two candidate files, among
\* the browser directories that exist; there is no file below a directory
\* that is absent.
ChromiumDisks(goos) ==
    {[p \in Paths |->
          IF p = <<Root(goos), b, "Default", "Cookies">>
            THEN (IF b \in dirs THEN f1 ELSE Absent)
          ELSE IF p = <<Root(goos), b, "Default/Network", "Cookies">>
            THEN (IF b \in dirs THEN f2 ELSE Absent)
          ELSE IF p[1] = Root(goos) /\ p[2] \in dirs /\ p[3] = "" /\ p[4] = "" THEN Directory
          ELSE Absent] :
        dirs \in SUBSET Apps(goos), b \in Apps(goos), f1 \in PrimaryStates, f2 \in NetworkStates}

ProfileStates == {Absent} \cup {File(d, TRUE) : d \in FirefoxStores}

\* The Firefox profiles directory with up to MaxEntries entries.
FirefoxDisk(goos, entries, stores) ==
    [p \in Paths |->
        IF p[1] # FirefoxProfiles(goos)[1] \/ p[2] # FirefoxProfiles(goos)[2] THEN Absent
        ELSE IF p[3] = "" THEN Directory
        ELSE IF p[3] \notin entries THEN Absent
        ELSE IF p[4] = "" THEN (IF p[3] \in ProfileNames THEN Directory
                                ELSE File(NoData, TRUE))
        ELSE IF p[3] \in ProfileNames THEN stores[p[3]]
        ELSE Absent]

FirefoxDisks(goos) ==
    IF goos \notin {osDarwin, osLinux} THEN {}
    ELSE {[EmptyDisk EXCEPT ![ProfilePath(FirefoxProfiles(goos), "", "")] = LockedDirectory]}
         \cup UNION {{FirefoxDisk(goos, entries, stores) : stores \in [entries -> ProfileStates]} :
                        entries \in {S \in SUBSET EntryNames : Cardinality(S) <= MaxEntries}}

SafariStates == {File(d, TRUE) : d \in SafariStores} \cup {File(SafariStore, FALSE)}

SafariDisks(goos) ==
    IF goos # osDarwin THEN {}
    ELSE {[EmptyDisk EXCEPT ![SafariCookies] = f] : f \in SafariStates}

Disks(goos) ==
    {EmptyDisk} \cup ChromiumDisks(goos) \cup FirefoxDisks(goos) \cup SafariDisks(goos)

\* What `security find-generic-password` or `secret-tool lookup` gives.
CommandResults ==
    {[output |-> EmptyStr, err |-> <<"exit status 1">>],
     [output |-> EmptyStr, err |-> NoError],
     [output |-> SafeStoragePassword \o <<NewLine>>, err |-> NoError]}

\* The identifiers a caller passes; the last one names no browser.
BrowserArgs == {BrowserSafari, BrowserChrome, BrowserFirefox, "netscape"}

ChromiumArgs == {BrowserChrome, BrowserChromium, BrowserArc}

\* The lookup command has not run.
NoCommand == Nil

Frame(fn, browser, pc) ==
    [pc |-> pc, fn |-> fn, browser |-> browser, cookiePath |-> NoPath, tmpFile |-> NoPath,
     cmd |-> NoCommand, key |-> NoKey, db |-> NoHandle, ret |-> Nil]

NoFrame == Frame("", "", "idle")

NoInput == [op |-> "none"]

\* Rows of a cookies table: values that decrypt under GoodKey, values that
\* carry a marker and cannot be decrypted, and values stored in the clear; a
\* row of another host, a row with an expiry, and a row that does not scan.
Rows ==
    {ChromiumRow(LiAtName, v, WwwLinkedInCom, 0, TRUE) :
         v \in {Encrypted(V10, GoodKey, <<ChA>>), V10 \o <<ChA>>, <<ChB>>}}
    \cup {ChromiumRow(JSessName, v, WwwLinkedInCom, 0, TRUE) :
              v \in {Encrypted(V11, GoodKey, <<Quote, ChB, Quote>>), V11 \o Rep(ChA, 17)}}
    \cup {ChromiumRow(LiAtName, <<ChA>>, ExampleCom, 0, TRUE),
          ChromiumRow(JSessName, <<ChA>>, DotLinkedInCom, LaterChromeTime, TRUE),
          ChromiumRow(LiAtName, <<ChA>>, WwwLinkedInCom, 0, FALSE)}

RowLists == SeqsUpTo(Rows, MaxRows)

\* The functions that read runtime.GOOS.
ReadsGOOS == {"decryptChromeCookie", "readChromiumCookies"}

\* Byte strings with NUL bytes, offsets inside, at and beyond their end and
\* with the top bit set, and the two widths of int.
DataStrings == SeqsUpTo({0, ChA, ChB}, MaxData)

Offsets == {Uint32(hi, lo) : hi \in {0, 1}, lo \in 0..(MaxData + 1)}

IntSizes == {32, 64}

\* The calls of the client: Do with any request, and the three wrappers.
ClientCalls ==
    {[via |-> "Do", req |-> Request(m, ra)] : m \in {"GET", "POST"}, ra \in BOOLEAN}
    \cup {[via |-> "Get", req |-> Request("GET", TRUE)],
          [via |-> "Post", req |-> Request("POST", TRUE)],
          [via |-> "Delete", req |-> Request("DELETE", TRUE)]}

Answers == {0, StatusOK, StatusFound, 401, StatusServerError}

Inputs ==
    {[op |-> "IsValid", c |-> c, now |-> t] : c \in CredentialsSet, t \in Times}
    \cup {[op |-> "cookiesToCredentials", cookies |-> cs] : cs \in CookieLists}
    \cup {[op |-> "parseCookieString", s |-> s] : s \in CookieStrings}
    \cup {[op |-> "FromEnvironment", env |-> e] : e \in Environments}
    \cup {[op |-> "LoginWithCredentials"]}
    \cup {[op |-> "removePKCS7Padding", data |-> d] : d \in Messages \cup PaddedMessages}
    \cup {[op |-> "decryptChromeCookie", encrypted |-> e, key |-> k] :
              e \in EncryptedValues, k \in Keys}
    \cup {[op |-> "readChromiumCookies", rows |-> rs, key |-> k] :
              rs \in RowLists, k \in Keys}
    \cup {[op |-> "parseBinaryCookiesData", pages |-> ps, variant |-> v,
           data |-> FileBytes(ps, v), domainFilter |-> f] :
              ps \in PageLists, v \in Variants, f \in DomainFilters}
    \cup {[op |-> "readNullTerminatedString", data |-> d, offset |-> o, intSize |-> w] :
              d \in DataStrings, o \in Offsets, w \in IntSizes}
    \cup {[op |-> "Do", credentials |-> c, call |-> k, now |-> n, later |-> l, answer |-> a] :
              c \in {Nil} \cup CredentialsSet, k \in ClientCalls,
              n \in Times, l \in Times, a \in Answers}

\* What the server may answer, and the cookies it may set.
Response(status, loc, tokens) == [status |-> status, loc |-> loc, tokens |-> tokens]

Responses ==
    {Response(StatusOK, LocNone, t) : t \in {"both", "noCsrfToken", "noLoginCsrfParam"}}
    \cup {Response(StatusFound, l, "none") : l \in {LocNone, LocOther, LocChallenge, LocSecurity}}
    \cup {Response(StatusServerError, LocNone, "none")}

NoResponse == Response(0, LocNone, "none")

\* Jar.Cookies returns cookies with a name and a value only: Expires is zero.
JarCookies ==
    {Cookie(LiAtName, <<ChA>>, ZeroTime), Cookie(LiAtName, EmptyStr, ZeroTime),
     Cookie(JSessName, <<Quote, ChB, Quote>>, ZeroTime), Cookie(JSessName, EmptyStr, ZeroTime)}

\* The jar after a request: unchanged, or with one more cookie.
JarsAfter(jar) ==
    {jar} \cup (IF Len(jar) < MaxJar THEN {Append(jar, c) : c \in JarCookies} ELSE {})

\* followed counts the redirects the running loop has followed.
LoginIdle == [pc |-> "idle", resp |-> NoResponse, i |-> 0, jar |-> <<>>, followed |-> 0]

NoResult == [op |-> "none"]

VARIABLES input, result, login, runtimeGOOS, disk, ext

vars == <<input, result, login, runtimeGOOS, disk, ext>>

extVars == <<runtimeGOOS, disk, ext>>

Init ==
    /\ input \in Inputs
    /\ result = NoResult
    /\ login = LoginIdle
    /\ runtimeGOOS \in (IF input.op \in ReadsGOOS THEN GOOS ELSE {osLinux})
    /\ disk = EmptyDisk
    /\ ext = NoFrame

CallIsValid ==
    /\ input.op = "IsValid"
    /\ result = NoResult
    /\ result' = [op |-> "IsValid", ok |-> IsValid(input.c, input.now)]
    /\ UNCHANGED <<input, login, extVars>>

CallCookiesToCredentials ==
    /\ input.op = "cookiesToCredentials"
    /\ result = NoResult
    /\ result' = [op |-> "cookiesToCredentials", ret |-> cookiesToCredentials(input.cookies)]
    /\ UNCHANGED <<input, login, extVars>>

CallParseCookieString ==
    /\ input.op = "parseCookieString"
    /\ result = NoResult
    /\ result' = [op |-> "parseCookieString", ret |-> parseCookieString(input.s)]
    /\ UNCHANGED <<input, login, extVars>>

CallFromEnvironment ==
    /\ input.op = "FromEnvironment"
    /\ result = NoResult
    /\ result' = [op |-> "FromEnvironment", ret |-> FromEnvironment(input.env)]
    /\ UNCHANGED <<input, login, extVars>>

\* LoginWithCredentials returns.
LoginReturn(creds, err) ==
    /\ result' = [op |-> "LoginWithCredentials", ret |-> [creds |-> creds, err |-> err]]
    /\ login' = [login EXCEPT !.pc = "done"]

\* getLoginTokens: the GET of the login page.
GetLoginPage ==
    /\ input.op = "LoginWithCredentials"
    /\ login.pc = "idle"
    /\ \/ LoginReturn(Nil, ErrGetLoginPage)
       \/ /\ \E r \in Responses, j \in JarsAfter(login.jar) :
                 login' = [login EXCEPT !.pc = "getLoginTokens", !.resp = r, !.jar = j]
          /\ UNCHANGED result
    /\ UNCHANGED <<input, extVars>>

\* getLoginTokens: one iteration of the manual redirect loop, which has no
\* counter; the run is cut off after MaxFollowed iterations.
GetLoginTokensRedirect ==
    /\ login.pc = "getLoginTokens"
    /\ login.followed < MaxFollowed
    /\ IsRedirect(login.resp)
    /\ login.resp.loc # LocNone
    /\ \/ LoginReturn(Nil, ErrGetLoginPage)
       \/ /\ \E r \in Responses, j \in JarsAfter(login.jar) :
                 login' = [login EXCEPT !.resp = r, !.jar = j, !.followed = @ + 1]
          /\ UNCHANGED result
    /\ UNCHANGED <<input, extVars>>

\* getLoginTokens after the loop: the status check and the two regular expressions.
GetLoginTokensReturn ==
    /\ login.pc = "getLoginTokens"
    /\ ~(IsRedirect(login.resp) /\ login.resp.loc # LocNone)
    /\ IF login.resp.status # StatusOK \/ login.resp.tokens # "both"
         THEN LoginReturn(Nil, ErrGetLoginPage)
         ELSE login' = [login EXCEPT !.pc = "post"] /\ UNCHANGED result
    /\ UNCHANGED <<input, extVars>>

\* submitLogin: the POST of the form.
SubmitLoginPost ==
    /\ login.pc = "post"
    /\ \/ LoginReturn(Nil, ErrLoginRequest)
       \/ /\ \E r \in Responses, j \in JarsAfter(login.jar) :
                 login' = [login EXCEPT !.pc = "submitLogin", !.resp = r, !.i = 0, !.jar = j,
                                          !.followed = 0]
          /\ UNCHANGED result
    /\ UNCHANGED <<input, extVars>>

\* submitLogin: one iteration of the redirect loop, bounded by maxRedirects.
SubmitLoginRedirect ==
    /\ login.pc = "submitLogin"
    /\ login.i < maxRedirects
    /\ IsRedirect(login.resp)
    /\ login.resp.loc # LocNone
    /\ IF login.resp.loc = LocChallenge THEN LoginReturn(Nil, ErrChallenge)
       ELSE IF login.resp.loc = LocSecurity THEN LoginReturn(Nil, ErrSecurity)
       ELSE \/ LoginReturn(Nil, ErrRedirect)
            \/ /\ \E r \in Responses, j \in JarsAfter(login.jar) :
                      login' = [login EXCEPT !.resp = r, !.i = @ + 1, !.jar = j,
                                               !.followed = @ + 1]
               /\ UNCHANGED result
    /\ UNCHANGED <<input, extVars>>

\* submitLogin after the loop: the credentials are read from the jar.
SubmitLoginReturn ==
    /\ login.pc = "submitLogin"
    /\ ~(login.i < maxRedirects /\ IsRedirect(login.resp) /\ login.resp.loc # LocNone)
    /\ LET ret == slCredentials(login.jar) IN LoginReturn(ret.creds, ret.err)
    /\ UNCHANGED <<input, extVars>>

CallRemovePKCS7Padding ==
    /\ input.op = "removePKCS7Padding"
    /\ result = NoResult
    /\ result' = [op |-> "removePKCS7Padding", out |-> removePKCS7Padding(input.data)]
    /\ UNCHANGED <<input, login, extVars>>

CallDecryptChromeCookie ==
    /\ input.op = "decryptChromeCookie"
    /\ result = NoResult
    /\ result' = [op |-> "decryptChromeCookie",
                  ret |-> decryptChromeCookie(runtimeGOOS, input.encrypted, input.key)]
    /\ UNCHANGED <<input, login, extVars>>

CallReadChromiumCookies ==
    /\ input.op = "readChromiumCookies"
    /\ result = NoResult
    /\ result' = [op |-> "readChromiumCookies",
                  ret |-> readChromiumCookies(runtimeGOOS, ChromiumDB(input.rows), input.key,
                                              "Chrome")]
    /\ UNCHANGED <<input, login, extVars>>

CallParseBinaryCookiesData ==
    /\ input.op = "parseBinaryCookiesData"
    /\ result = NoResult
    /\ result' = [op |-> "parseBinaryCookiesData",
                  ret |-> parseBinaryCookiesData(input.data, input.domainFilter)]
    /\ UNCHANGED <<input, login, extVars>>

CallReadNullTerminatedString ==
    /\ input.op = "readNullTerminatedString"
    /\ result = NoResult
    /\ result' = [op |-> "readNullTerminatedString",
                  ret |-> readNullTerminatedStringOn(input.intSize, input.data, input.offset)]
    /\ UNCHANGED <<input, login, extVars>>

\* A call of Do, Get, Post or Delete; the clock does not run backwards.
CallDo ==
    /\ input.op = "Do"
    /\ input.later >= input.now
    /\ result = NoResult
    /\ result' = [op |-> "Do",
                  ret |-> CASE input.call.via = "Get" ->
                                   Get(input.credentials, input.now, input.later, input.answer)
                            [] input.call.via = "Post" ->
                                   Post(input.credentials, input.now, input.later, input.answer)
                            [] input.call.via = "Delete" ->
                                   Delete(input.credentials, input.now, input.later, input.answer)
                            [] OTHER ->
                                   Do(input.credentials, input.call.req, input.now, input.later,
                                      input.answer)]
    /\ UNCHANGED <<input, login, extVars>>

Next ==
    \/ CallDo
    \/ CallReadNullTerminatedString
    \/ CallParseBinaryCookiesData
    \/ CallReadChromiumCookies
    \/ CallRemovePKCS7Padding
    \/ CallDecryptChromeCookie
    \/ GetLoginPage
    \/ GetLoginTokensRedirect
    \/ GetLoginTokensReturn
    \/ SubmitLoginPost
    \/ SubmitLoginRedirect
    \/ SubmitLoginReturn
    \/ CallIsValid
    \/ CallCookiesToCredentials
    \/ CallParseCookieString
    \/ CallFromEnvironment

Spec == Init /\ [][Next]_vars

(***************************************************************************)
(* Extraction.  ext is the running call: its place, its arguments and      *)
(* locals, and what it returned.  The browser may rewrite its store at any *)
(* time.                                                                   *)
(***************************************************************************)
pureVars == <<input, result, login>>

SupportedBrowsersEverywhere(goos) == <<BrowserSafari, BrowserChrome, BrowserFirefox>>

SupportedBrowsers(goos) ==
    IF goos = osDarwin THEN <<BrowserSafari, BrowserChrome, BrowserFirefox>>
    ELSE <<BrowserChrome, BrowserFirefox>>

\* What the call gives its caller: ExtractLinkedInCookies turns the cookies
\* into credentials, extractChromiumCookies returns them.
Returns(fn, cookies, err) ==
    IF fn = "ExtractLinkedInCookies"
      THEN IF err # NoError THEN [creds |-> Nil, err |-> err]
           ELSE cookiesToCredentials(cookies)
      ELSE [cookies |-> cookies, err |-> err]

\* The extraction returns; the deferred os.Remove(tmpFile) runs when the
\* snapshot was taken.
ExtractReturn(cookies, err) ==
    /\ ext' = [ext EXCEPT !.pc = "done", !.db = NoHandle,
                          !.ret = Returns(ext.fn, cookies, err)]
    /\ disk' = IF ext.tmpFile # NoPath THEN osRemove(disk, ext.tmpFile) ELSE disk

\* ExtractLinkedInCookies(browser): the switch on the browser.
CallExtractLinkedInCookies ==
    /\ ext.pc = "idle"
    /\ \E browser \in BrowserArgs :
         LET enter(pc) == Frame("ExtractLinkedInCookies", browser, pc)
             fail(err) == [enter("done") EXCEPT !.ret = [creds |-> Nil, err |-> err]]
         IN  ext' =
               IF browser = BrowserSafari
                 THEN IF runtimeGOOS # osDarwin
                        THEN fail(<<"Safari is only available on macOS">>)
                        ELSE enter("parseBinaryCookies")
               ELSE IF browser = BrowserChrome
                 THEN IF runtimeGOOS \notin {osDarwin, osLinux}
                        THEN fail(<<"Chrome cookie extraction not supported on", runtimeGOOS>>)
                        ELSE enter("findChromeCookiesPath")
               ELSE IF browser = BrowserFirefox
                 THEN IF runtimeGOOS \notin {osDarwin, osLinux}
                        THEN fail(<<"Firefox cookie extraction not supported on", runtimeGOOS>>)
                        ELSE enter("findFirefoxProfile")
               ELSE fail(<<"unsupported browser", browser>> \o SupportedBrowsers(runtimeGOOS))
    /\ UNCHANGED <<disk, runtimeGOOS, pureVars>>

\* extractChromiumCookies(browser).
CallExtractChromiumCookies ==
    /\ ext.pc = "idle"
    /\ \E browser \in ChromiumArgs :
         ext' = Frame("extractChromiumCookies", browser, "findChromiumCookiesPath")
    /\ UNCHANGED <<disk, runtimeGOOS, pureVars>>

Located(r) ==
    IF r.err # NoError THEN ExtractReturn(<<>>, r.err)
    ELSE /\ ext' = [ext EXCEPT !.cookiePath = r.path, !.pc = "copyToTemp"]
         /\ UNCHANGED disk

FindChromeCookiesPath ==
    /\ ext.pc = "findChromeCookiesPath"
    /\ Located(findChromeCookiesPath(runtimeGOOS, disk))
    /\ UNCHANGED <<runtimeGOOS, pureVars>>

FindChromiumCookiesPath ==
    /\ ext.pc = "findChromiumCookiesPath"
    /\ Located(findChromiumCookiesPath(runtimeGOOS, disk, getChromiumConfig(ext.browser)))
    /\ UNCHANGED <<runtimeGOOS, pureVars>>

\* findFirefoxProfile; a panic ends the process.
FindFirefoxProfile ==
    /\ ext.pc = "findFirefoxProfile"
    /\ LET r == findFirefoxProfile(runtimeGOOS, disk)
       IN  IF r.panic THEN ext' = [ext EXCEPT !.pc = "panic"] /\ UNCHANGED disk
           ELSE Located([path |-> <<r.path[1], r.path[2], r.path[3], "cookies.sqlite">>,
                         err |-> r.err])
    /\ UNCHANGED <<runtimeGOOS, pureVars>>

\* copyToTemp(cookiePath); on success the removal of the snapshot is deferred.
CopyToTemp ==
    /\ ext.pc = "copyToTemp"
    /\ \E tmpName \in TempPaths, fault \in {"none", "create", "write"} :
         /\ disk[tmpName] = Absent
         /\ LET r == copyToTemp(disk, ext.cookiePath, tmpName, fault)
            IN  /\ disk' = r.disk
                /\ ext' = IF r.err # NoError
                            THEN [ext EXCEPT !.pc = "done",
                                             !.ret = Returns(ext.fn, <<>>,
                                                 Wrap("failed to copy cookies database", r.err))]
                          ELSE [ext EXCEPT !.tmpFile = r.path,
                                           !.pc = IF ext.browser = BrowserFirefox
                                                    THEN "sqlOpen"
                                                    ELSE "getChromiumDecryptionKey"]
    /\ UNCHANGED <<runtimeGOOS, pureVars>>

\* getChromiumDecryptionKey(config): the command's result is the vault's answer.
GetChromiumDecryptionKey ==
    /\ ext.pc = "getChromiumDecryptionKey"
    /\ \E cmd \in CommandResults :
         LET r == getChromiumDecryptionKey(runtimeGOOS, getChromiumConfig(ext.browser), cmd)
             called == [ext EXCEPT !.cmd = cmd]
         IN  IF r.err # NoError
               THEN /\ ext' = [called EXCEPT
                                  !.pc = "done",
                                  !.ret = Returns(ext.fn, <<>>,
                                              Wrap("failed to get decryption key", r.err))]
                    /\ disk' = osRemove(disk, ext.tmpFile)
               ELSE /\ ext' = [called EXCEPT !.key = r.key, !.pc = "sqlOpen"]
                    /\ UNCHANGED disk
    /\ UNCHANGED <<runtimeGOOS, pureVars>>

\* readChromiumCookies and readFirefoxCookies begin alike: sql.Open on the
\* snapshot's path with "?mode=ro".
OpenDatabase ==
    /\ ext.pc = "sqlOpen"
    /\ ext' = [ext EXCEPT !.db = sqlOpen(DSN(ext.tmpFile)),
                          !.pc = IF ext.browser = BrowserFirefox
                                   THEN "readFirefoxCookies" ELSE "readChromiumCookies"]
    /\ UNCHANGED <<disk, runtimeGOOS, pureVars>>

\* readChromiumCookies from the query on.
ReadChromiumCookies ==
    /\ ext.pc = "readChromiumCookies"
    /\ LET r == readChromiumCookies(runtimeGOOS, Content(disk, ext.db), ext.key,
                                    getChromiumConfig(ext.browser).name)
       IN  ExtractReturn(r.cookies, r.err)
    /\ UNCHANGED <<runtimeGOOS, pureVars>>

\* readFirefoxCookies from the query on.
ReadFirefoxCookies ==
    /\ ext.pc = "readFirefoxCookies"
    /\ LET r == readFirefoxCookies(Content(disk, ext.db))
       IN  ExtractReturn(r.cookies, r.err)
    /\ UNCHANGED <<runtimeGOOS, pureVars>>

\* extractSafariCookies: parseBinaryCookies on the live file.
ParseBinaryCookies ==
    /\ ext.pc = "parseBinaryCookies"
    /\ LET r == parseBinaryCookies(disk, SafariCookies, LinkedInCom)
       IN  ExtractReturn(r.cookies, r.err)
    /\ UNCHANGED <<runtimeGOOS, pureVars>>

\* The caller goes on to its next call.
NextCall ==
    /\ ext.pc = "done"
    /\ ext' = NoFrame
    /\ UNCHANGED <<disk, runtimeGOOS, pureVars>>

\* The live browser rewrites one of its cookie stores.
BrowserWrites ==
    /\ \E p \in StorePaths :
         /\ disk[p].kind = "file"
         /\ \E d \in (IF p = SafariCookies THEN SafariStores
                      ELSE IF p[4] = "Cookies" THEN ChromiumStores
                      ELSE FirefoxStores) :
              /\ d # disk[p].data
              /\ disk' = [disk EXCEPT ![p].data = d]
    /\ UNCHANGED <<ext, runtimeGOOS, pureVars>>

NextExtract ==
    \/ CallExtractLinkedInCookies
    \/ CallExtractChromiumCookies
    \/ FindChromeCookiesPath
    \/ FindChromiumCookiesPath
    \/ FindFirefoxProfile
    \/ CopyToTemp
    \/ GetChromiumDecryptionKey
    \/ OpenDatabase
    \/ ReadChromiumCookies
    \/ ReadFirefoxCookies
    \/ ParseBinaryCookies
    \/ NextCall
    \/ BrowserWrites

InitExtract ==
    /\ input = NoInput
    /\ result = NoResult
    /\ login = LoginIdle
    /\ runtimeGOOS \in GOOS
    /\ disk \in Disks(runtimeGOOS)
    /\ ext = NoFrame

SpecExtract == InitExtract /\ [][NextExtract]_vars

(***************************************************************************)
(* Properties                                                              *)
(***************************************************************************)
HasCookie(cookies, name) == \E i \in DOMAIN cookies : cookies[i].Name = name

LastCookie(cookies, name) ==
    cookies[CHOOSE i \in DOMAIN cookies :
                /\ cookies[i].Name = name
                /\ \A j \in DOMAIN cookies : j > i => cookies[j].Name # name]

\* A required cookie is usable when it occurs and its last occurrence has a value.
Usable(cookies, name) ==
    HasCookie(cookies, name) /\ LastCookie(cookies, name).Value # EmptyStr

\* C1 as stated: IsValid() is true iff both secrets are non-empty and the
\* expiration is unset or strictly later than the check time; an expiration
\* equal to the check instant makes it false.
C1_Original ==
    result.op = "IsValid" =>
        (result.ok <=> /\ input.c.LiAt # EmptyStr
                       /\ input.c.JSessID # EmptyStr
                       /\ (input.c.ExpiresAt = ZeroTime \/ input.c.ExpiresAt > input.now))

\* C1 as amended: IsValid() is true iff both secrets are non-empty and the
\* expiration is unset or not earlier than the check time; only an expiration
\* strictly before the check time makes it false, one equal to it does not.
C1_IsValidIff ==
    result.op = "IsValid" =>
        (result.ok <=> /\ input.c.LiAt # EmptyStr
                       /\ input.c.JSessID # EmptyStr
                       /\ (input.c.ExpiresAt = ZeroTime \/ input.c.ExpiresAt >= input.now))

C1_Witness ==
    /\ result.op = "IsValid"
    /\ input.c.LiAt # EmptyStr
    /\ input.c.JSessID # EmptyStr
    /\ input.c.ExpiresAt = input.now
    /\ result.ok

\* C2 as stated: a list that contains a li_at cookie and a JSESSIONID cookie,
\* both with a non-empty value and no expiry, converts without error to
\* credentials carrying these two values, and the credentials are valid.
C2_Original ==
    result.op = "cookiesToCredentials" =>
        \A i, j \in DOMAIN input.cookies :
            LET a == input.cookies[i]
                b == input.cookies[j]
            IN  ( /\ a.Name = LiAtName /\ a.Value # EmptyStr /\ a.ExpiresAt = ZeroTime
                  /\ b.Name = JSessName /\ b.Value # EmptyStr /\ b.ExpiresAt = ZeroTime )
                => /\ result.ret.err = NoError
                   /\ result.ret.creds.LiAt = a.Value
                   /\ result.ret.creds.JSessID = b.Value
                   /\ \A t \in Times : IsValid(result.ret.creds, t)

\* C2 as amended: when the last li_at cookie and the last JSESSIONID cookie of
\* the list have non-empty values and no li_at cookie of the list has an expiry,
\* the conversion succeeds with LiAt and JSessID equal to the values of these
\* last cookies (enclosing quotes kept), and the credentials are valid.
C2_ValidPair ==
    ( /\ result.op = "cookiesToCredentials"
      /\ Usable(input.cookies, LiAtName)
      /\ Usable(input.cookies, JSessName)
      /\ \A i \in DOMAIN input.cookies :
             input.cookies[i].Name = LiAtName => input.cookies[i].ExpiresAt = ZeroTime )
        => /\ result.ret.err = NoError
           /\ result.ret.creds.LiAt = LastCookie(input.cookies, LiAtName).Value
           /\ result.ret.creds.JSessID = LastCookie(input.cookies, JSessName).Value
           /\ \A t \in Times : IsValid(result.ret.creds, t)

C2_Witness ==
    /\ result.op = "cookiesToCredentials"
    /\ Len(input.cookies) = 3
    /\ input.cookies[1] = Cookie(LiAtName, <<Quote, ChB, Quote>>, ZeroTime)
    /\ input.cookies[2] = Cookie(JSessName, <<Quote, ChB, Quote>>, 2)
    /\ input.cookies[3] = Cookie(LiAtName, <<ChA>>, ZeroTime)
    /\ result.ret.err = NoError
    /\ result.ret.creds.LiAt = <<ChA>>
    /\ result.ret.creds.JSessID = <<Quote, ChB, Quote>>

\* C3 as stated: a list lacking a li_at cookie or lacking a JSESSIONID cookie
\* yields no credentials and an error naming li_at when li_at is absent and
\* JSESSIONID when only JSESSIONID is absent.
C3_Original ==
    ( /\ result.op = "cookiesToCredentials"
      /\ (~HasCookie(input.cookies, LiAtName) \/ ~HasCookie(input.cookies, JSessName)) )
        => /\ result.ret.creds = Nil
           /\ result.ret.err = IF ~HasCookie(input.cookies, LiAtName)
                                 THEN ErrLiAtNotFound ELSE ErrJSessNotFound

\* C3 as amended: a required cookie counts as missing when it is absent or its
\* last occurrence has an empty value; a list missing li_at or JSESSIONID
\* yields no credentials and an error naming li_at when li_at is missing and
\* JSESSIONID when only JSESSIONID is missing.
C3_MissingNamed ==
    ( /\ result.op = "cookiesToCredentials"
      /\ (~Usable(input.cookies, LiAtName) \/ ~Usable(input.cookies, JSessName)) )
        => /\ result.ret.creds = Nil
           /\ result.ret.err = IF ~Usable(input.cookies, LiAtName)
                                 THEN ErrLiAtNotFound ELSE ErrJSessNotFound

C3_Witness ==
    /\ result.op = "cookiesToCredentials"
    /\ Usable(input.cookies, LiAtName)
    /\ ~HasCookie(input.cookies, JSessName)
    /\ result.ret.creds = Nil
    /\ result.ret.err = ErrJSessNotFound

\* y is x without its enclosing quotes: x is some quotes, then y, then some
\* quotes, and y neither starts nor ends with a quote.
IsUnquoted(y) == y = EmptyStr \/ (y[1] # Quote /\ y[Len(y)] # Quote)

IsStripOf(y, x) ==
    /\ IsUnquoted(y)
    /\ \E m, n \in 0..Len(x) :
          /\ m + n <= Len(x)
          /\ y = SubSeq(x, m + 1, Len(x) - n)
          /\ \A k \in 1..m : x[k] = Quote
          /\ \A k \in (Len(x) - n + 1)..Len(x) : x[k] = Quote

Producers == {"cookiesToCredentials", "FromEnvironment", "parseCookieString",
              "LoginWithCredentials"}

\* C4: in the credentials cookiesToCredentials, FromEnvironment,
\* parseCookieString and submitLogin return, CSRFToken is JSessID without its
\* enclosing quotes; stripping an unquoted value changes nothing, and
\* stripping the stripped value again changes nothing.
C4_CsrfIsStrippedJSessID ==
    (result.op \in Producers /\ result.ret.err = NoError)
        => /\ IsStripOf(result.ret.creds.CSRFToken, result.ret.creds.JSessID)
           /\ IsUnquoted(result.ret.creds.JSessID)
                  => result.ret.creds.CSRFToken = result.ret.creds.JSessID
           /\ Trim(result.ret.creds.CSRFToken, {Quote}) = result.ret.creds.CSRFToken

C4_Witness ==
    /\ result.op = "parseCookieString"
    /\ result.ret.err = NoError
    /\ result.ret.creds.JSessID = <<Quote, Quote, ChA, Quote>>
    /\ result.ret.creds.CSRFToken = <<ChA>>

Markers == {V10, V11}

OtherMarker(mk) == IF mk = V10 THEN V11 ELSE V10

\* The encrypted value of the call is a recognized marker followed by a payload.
Marked == Len(input.encrypted) >= 3 /\ SubSeq(input.encrypted, 1, 3) \in Markers

MarkerOf == SubSeq(input.encrypted, 1, 3)

PayloadOf == SubSeq(input.encrypted, 4, Len(input.encrypted))

\* A payload of whole blocks, at least one, under a key the cipher accepts.
Decryptable(payload, key) ==
    Len(payload) >= BlockSize /\ Len(payload) % BlockSize = 0 /\ Len(key) \in {16, 24, 32}

CBCResult(payload, key) ==
    [out |-> removePKCS7Padding(CBCDecrypt(key, IV, payload)), err |-> NoError]

\* The exit paths of an extraction that took its snapshot.
SnapshotTaken == ext.pc = "done" /\ ext.tmpFile # NoPath

\* C5: when a Chromium-family or Firefox extraction returns after copyToTemp
\* made the snapshot, the snapshot file no longer exists, whatever the exit:
\* success, key-recovery failure, query failure, no matching row, or a value
\* that does not decrypt.  No temporary file is left at all.
C5_SnapshotRemoved ==
    SnapshotTaken => /\ disk[ext.tmpFile] = Absent
                     /\ \A t \in TempPaths : disk[t] = Absent

C5_Witness ==
    /\ SnapshotTaken
    /\ ext.ret.err # NoError
    /\ ext.ret.err[1] = "failed to get decryption key"
    /\ disk[ext.tmpFile] = Absent
    /\ disk[ext.cookiePath] = File(MacStore, TRUE)

\* C6: in every step in which something below the home directory that is not
\* the engine's temporary file changes, created, rewritten or deleted, it is
\* the browser that writes, never a step of an extraction; and a database
\* handle always names the snapshot of the running call, opened with mode=ro.
C6_LiveStoreOnlyRead ==
    /\ [][(\E p \in LivePaths : disk'[p] # disk[p]) => BrowserWrites]_vars
    /\ [](ext.db # NoHandle => /\ ext.db.path \in TempPaths
                               /\ ext.db.path = ext.tmpFile
                               /\ ext.db.mode = "ro")

C6_Witness ==
    /\ ext.pc = "done"
    /\ ext.browser = BrowserFirefox
    /\ ext.ret.err = NoError
    /\ ext.ret.creds.LiAt = <<ChA>>
    /\ disk[ext.cookiePath] = File(FirefoxStore, TRUE)
    /\ \A t \in TempPaths : disk[t] = Absent

\* The rows of the call that the query returns and that scan, in order.
ScannedRows ==
    SelectSeq(input.rows, LAMBDA r : HasSuffix(r.host_key, LinkedInCom) /\ r.scans)

\* A value with a version marker that cannot be decrypted under the key.
Undecryptable(value, key) ==
    /\ Len(value) >= 3
    /\ SubSeq(value, 1, 3) \in Markers
    /\ ~Decryptable(SubSeq(value, 4, Len(value)), key)

\* C7: when a row of the result carries a version marker and cannot be
\* decrypted (payload shorter than a block or not a multiple of 16, or a key
\* the cipher rejects), readChromiumCookies does not fail; it returns one
\* cookie per row, in order; the cookie of such a row has the stored bytes as
\* its value; and the cookie of every other row is the one that row gives when
\* it is read alone.
C7_FailedRowKept ==
    ( /\ result.op = "readChromiumCookies"
      /\ \E i \in DOMAIN ScannedRows : Undecryptable(ScannedRows[i].encrypted_value, input.key) )
        => /\ result.ret.err = NoError
           /\ Len(result.ret.cookies) = Len(ScannedRows)
           /\ \A i \in DOMAIN ScannedRows :
                LET row == ScannedRows[i]
                IN  /\ result.ret.cookies[i].Name = row.name
                    /\ IF Undecryptable(row.encrypted_value, input.key)
                         THEN result.ret.cookies[i].Value = row.encrypted_value
                         ELSE <<result.ret.cookies[i]>> =
                                  readChromiumCookies(runtimeGOOS, ChromiumDB(<<row>>),
                                                      input.key, "Chrome").cookies

C7_Witness ==
    /\ result.op = "readChromiumCookies"
    /\ runtimeGOOS = osLinux
    /\ input.key = GoodKey
    /\ Len(input.rows) = 3
    /\ input.rows[1].encrypted_value = Encrypted(V10, GoodKey, <<ChA>>)
    /\ input.rows[2].encrypted_value = V10 \o <<ChA>>
    /\ input.rows[3].encrypted_value = Encrypted(V11, GoodKey, <<Quote, ChB, Quote>>)
    /\ result.ret.err = NoError
    /\ Len(result.ret.cookies) = 3
    /\ result.ret.cookies[1].Value = <<ChA>>
    /\ result.ret.cookies[2].Value = V10 \o <<ChA>>
    /\ result.ret.cookies[3].Value = <<Quote, ChB, Quote>>

\* C8: decryptChromeCookie returns its input unchanged and no error when the
\* input is empty, shorter than the 3-byte marker, or does not begin with a
\* recognized marker, whatever the key and the OS.
C8_UnmarkedUnchanged ==
    ( /\ result.op = "decryptChromeCookie"
      /\ (Len(input.encrypted) < 3 \/ SubSeq(input.encrypted, 1, 3) \notin Markers) )
        => result.ret = [out |-> input.encrypted, err |-> NoError]

C8_Witness ==
    /\ result.op = "decryptChromeCookie"
    /\ input.key = BadKey
    /\ input.encrypted = V12 \o Rep(ChA, 16)
    /\ result.ret = [out |-> V12 \o Rep(ChA, 16), err |-> NoError]

\* C9 as stated: on every supported OS, for every key and payload, 'v10'+payload
\* and 'v11'+payload give the same result, the CBC decryption of the payload
\* with the 16-space IV followed by padding removal.
C9_Original ==
    ( /\ result.op = "decryptChromeCookie"
      /\ runtimeGOOS \in {osDarwin, osLinux}
      /\ Marked )
        => /\ result.ret = decryptChromeCookie(runtimeGOOS, OtherMarker(MarkerOf) \o PayloadOf,
                                               input.key)
           /\ Decryptable(PayloadOf, input.key) => result.ret = CBCResult(PayloadOf, input.key)

\* C9 as amended: on Linux, for every key and every non-empty payload,
\* 'v10'+payload and 'v11'+payload give the same result, which for a payload of
\* whole blocks under a usable key is the CBC decryption with the 16-space IV
\* followed by padding removal.  On macOS only v10 is recognized and decrypted
\* that way; 'v11'+payload is returned unchanged.
C9_MarkersByOS ==
    ( /\ result.op = "decryptChromeCookie"
      /\ Marked
      /\ PayloadOf # EmptyStr )
        => /\ runtimeGOOS = osLinux
                => /\ result.ret = decryptChromeCookie(runtimeGOOS,
                                       OtherMarker(MarkerOf) \o PayloadOf, input.key)
                   /\ Decryptable(PayloadOf, input.key)
                          => result.ret = CBCResult(PayloadOf, input.key)
           /\ (runtimeGOOS = osDarwin /\ MarkerOf = V10 /\ Decryptable(PayloadOf, input.key))
                => result.ret = CBCResult(PayloadOf, input.key)
           /\ (runtimeGOOS = osDarwin /\ MarkerOf = V11)
                => result.ret = [out |-> input.encrypted, err |-> NoError]

C9_Witness ==
    /\ result.op = "decryptChromeCookie"
    /\ runtimeGOOS = osLinux
    /\ input.key = GoodKey
    /\ input.encrypted = V11 \o CBCEncrypt(GoodKey, IV, PKCS7Pad(<<Quote, ChB, Quote>>))
    /\ result.ret = [out |-> <<Quote, ChB, Quote>>, err |-> NoError]

\* C10: for every message m, the empty one and those of a length that is a
\* multiple of 16 included, removePKCS7Padding of m padded with PKCS#7 to a
\* multiple of 16 bytes is m.
C10_RoundTrip ==
    result.op = "removePKCS7Padding" =>
        \A m \in Messages : input.data = PKCS7Pad(m) => result.out = m

C10_Witness ==
    /\ result.op = "removePKCS7Padding"
    /\ input.data = Rep(ChA, 16) \o Rep(BlockSize, 16)
    /\ result.out = Rep(ChA, 16)

\* The last byte of the data of the call, read as a padding length.
LastByte == input.data[Len(input.data)]

IsPrefix(s, t) == Len(s) <= Len(t) /\ s = SubSeq(t, 1, Len(s))

\* C11 as stated: removePKCS7Padding returns a prefix of its input; the input
\* unchanged when it is empty or its final byte exceeds the data length or the
\* block size; and otherwise the input without that many trailing bytes.
C11_Original ==
    result.op = "removePKCS7Padding" =>
        /\ IsPrefix(result.out, input.data)
        /\ IF Len(input.data) = 0 \/ LastByte > Len(input.data) \/ LastByte > BlockSize
             THEN result.out = input.data
             ELSE result.out = SubSeq(input.data, 1, Len(input.data) - LastByte)

\* C11 as amended: removePKCS7Padding returns a prefix of its input; the input
\* unchanged when it is empty, when its final byte exceeds the data length or
\* the block size, or when the trailing bytes that the final byte counts are
\* not all equal to it; and otherwise the input without these trailing bytes.
C11_PaddingStripped ==
    result.op = "removePKCS7Padding" =>
        /\ IsPrefix(result.out, input.data)
        /\ IF Len(input.data) = 0 \/ LastByte > Len(input.data) \/ LastByte > BlockSize
             THEN result.out = input.data
             ELSE IF \A i \in (Len(input.data) - LastByte + 1)..Len(input.data) :
                         input.data[i] = LastByte
               THEN result.out = SubSeq(input.data, 1, Len(input.data) - LastByte)
               ELSE result.out = input.data

\* A final byte 2 within the length and the block size, after a byte that is
\* not 2: nothing is stripped.
C11_Witness ==
    /\ result.op = "removePKCS7Padding"
    /\ input.data = Rep(ChA, 3) \o <<1, 2>>
    /\ result.out = input.data

\* The cookie a record of a page stands for.
CookieOfRecord(r) == CookieOf(r.domain, r.name, r.value, macEpoch + r.seconds)

\* The cookies of the records whose domain passes the filter, in order.
Matching(records, filter) ==
    LET kept == SelectSeq(records, LAMBDA r : filter = EmptyStr \/ Contains(r.domain, filter))
    IN  [i \in DOMAIN kept |-> CookieOfRecord(kept[i])]

Range(s) == {s[i] : i \in DOMAIN s}

\* Page i of the file of the call is in the file with all its bytes.
PageRead(i) == input.variant \in {"whole", "noTrailer"} \/ i < Len(input.pages)

\* The file of the call has the magic and a page table that can be read.
ValidMagicAndTable == input.variant \in {"whole", "noTrailer", "beforeLast", "inLast"}

\* C12: parseBinaryCookiesData gives an error and no cookie for every input
\* that is shorter than 4 bytes or does not begin with 'cook', whatever pages
\* follow.
C12_BadMagicRejected ==
    ( /\ result.op = "parseBinaryCookiesData"
      /\ (Len(input.data) < 4 \/ SubSeq(input.data, 1, 4) # Cook) )
        => /\ result.ret.err # NoError
           /\ result.ret.cookies = <<>>

C12_Witness ==
    /\ result.op = "parseBinaryCookiesData"
    /\ input.variant = "magic3"
    /\ input.domainFilter = LinkedInCom
    /\ Len(input.pages) = 2
    /\ \A i \in DOMAIN input.pages : input.pages[i].wellFormed
    /\ result.ret.err = ErrBadMagic
    /\ result.ret.cookies = <<>>

\* C13 as stated: for a file with valid magic and page table, whatever pages
\* are too short, truncated or have bad offsets, parseBinaryCookiesData
\* returns without error, and its cookies include the matching cookies of
\* every well-formed page that is in the file.
C13_CorruptPageSkipped ==
    (result.op = "parseBinaryCookiesData" /\ ValidMagicAndTable)
        => /\ result.ret.err = NoError
           /\ \A i \in DOMAIN input.pages :
                (input.pages[i].wellFormed /\ PageRead(i))
                    => Range(Matching(input.pages[i].records, input.domainFilter))
                           \subseteq Range(result.ret.cookies)

Duplicated(cookies, name) ==
    \E i, j \in DOMAIN cookies : i < j /\ cookies[i].Name = name /\ cookies[j].Name = name

\* C19: when the list holds several li_at cookies or several JSESSIONID
\* cookies, cookiesToCredentials decides by the last cookie of each name alone:
\* it succeeds exactly when the last li_at and the last JSESSIONID have a value,
\* and then LiAt is the value of the last li_at, JSessID the value of the last
\* JSESSIONID and CSRFToken that value without its enclosing quotes, whatever
\* the earlier cookies of the same name hold.
C19_LastWriteWins ==
    ( /\ result.op = "cookiesToCredentials"
      /\ (Duplicated(input.cookies, LiAtName) \/ Duplicated(input.cookies, JSessName)) )
        => /\ result.ret.err = NoError
                <=> (Usable(input.cookies, LiAtName) /\ Usable(input.cookies, JSessName))
           /\ result.ret.err = NoError
                => /\ result.ret.creds.LiAt = LastCookie(input.cookies, LiAtName).Value
                   /\ result.ret.creds.JSessID = LastCookie(input.cookies, JSessName).Value
                   /\ result.ret.creds.CSRFToken =
                          Trim(LastCookie(input.cookies, JSessName).Value, {Quote})

C19_Witness ==
    /\ result.op = "cookiesToCredentials"
    /\ Len(input.cookies) = 3
    /\ input.cookies[1] = Cookie(JSessName, <<ChA>>, ZeroTime)
    /\ input.cookies[2] = Cookie(LiAtName, <<ChA>>, ZeroTime)
    /\ input.cookies[3] = Cookie(JSessName, <<Quote, ChB, Quote>>, ZeroTime)
    /\ result.ret.err = NoError
    /\ result.ret.creds.JSessID = <<Quote, ChB, Quote>>
    /\ result.ret.creds.CSRFToken = <<ChB>>

BrowserDir ==
    IF runtimeGOOS = osDarwin THEN <<MacSupport, getChromiumConfig(ext.browser).macOSPath>>
    ELSE <<LinuxConfig, getChromiumConfig(ext.browser).linuxPath>>

Primary == <<BrowserDir[1], BrowserDir[2], "Default", "Cookies">>

Secondary == <<BrowserDir[1], BrowserDir[2], "Default/Network", "Cookies">>

\* extractChromiumCookies is past findChromiumCookiesPath, on an OS where the
\* browser has a directory.
PathLookedUp ==
    /\ ext.fn = "extractChromiumCookies"
    /\ ext.pc \notin {"idle", "findChromiumCookiesPath"}
    /\ runtimeGOOS \in {osDarwin, osLinux}
    /\ BrowserDir[2] # ""

\* C17: after findChromiumCookiesPath, the path is Default/Cookies whenever
\* that file exists; it is Default/Network/Cookies only when Default/Cookies
\* is absent and Default/Network/Cookies exists; and when the browser
\* directory is absent or neither file exists the extraction has ended with a
\* not-found error, no path and no cookies.
C17_PathPriority ==
    PathLookedUp
        => /\ Stat(disk, Primary) => ext.cookiePath = Primary
           /\ ext.cookiePath = Secondary => (~Stat(disk, Primary) /\ Stat(disk, Secondary))
           /\ ext.cookiePath \in {Primary, Secondary, NoPath}
           /\ ( \/ ~Stat(disk, <<BrowserDir[1], BrowserDir[2], "", "">>)
                \/ (~Stat(disk, Primary) /\ ~Stat(disk, Secondary)) )
                  => /\ ext.cookiePath = NoPath
                     /\ ext.pc = "done"
                     /\ ext.ret.cookies = <<>>
                     /\ ext.ret.err \in
                            {<<"not found. Is it installed?", getChromiumConfig(ext.browser).name>>,
                             <<"cookies database not found", getChromiumConfig(ext.browser).name>>}

C17_Witness ==
    /\ PathLookedUp
    /\ Stat(disk, Primary)
    /\ Stat(disk, Secondary)
    /\ ext.cookiePath = Primary

\* The key recovery of the running extraction has run and failed.
KeyRecoveryFailed ==
    /\ ext.pc = "done"
    /\ ext.key = NoKey
    /\ ext.ret.err =
           <<"failed to get decryption key",
             "failed to get key from Keychain", getChromiumConfig(ext.browser).name>>
           \o ext.cmd.err

\* C16: once the lookup command of an extraction has run, the key recovery
\* has failed exactly when the OS is macOS and the lookup failed, and then the
\* extraction has ended with an error and no cookies or credentials; on macOS
\* a lookup that succeeds gives the key of its output with 1003 iterations; on
\* Linux the recovery does not fail, and the key is the one of 'peanuts' with
\* 1 iteration when the lookup failed or gave nothing, the one of the
\* lookup's output with 1 iteration otherwise.
C16_KeyRecovery ==
    ext.cmd # NoCommand
        => /\ runtimeGOOS \in {osDarwin, osLinux}
           /\ KeyRecoveryFailed <=> (runtimeGOOS = osDarwin /\ ext.cmd.err # NoError)
           /\ ~KeyRecoveryFailed => Len(ext.key) = 16
           /\ KeyRecoveryFailed
                  => IF ext.fn = "ExtractLinkedInCookies" THEN ext.ret.creds = Nil
                     ELSE ext.ret.cookies = <<>>
           /\ (runtimeGOOS = osDarwin /\ ext.cmd.err = NoError)
                  => ext.key = pbkdf2Key(TrimSpace(ext.cmd.output), saltysalt, 1003, 16)
           /\ runtimeGOOS = osLinux
                  => ext.key = IF ext.cmd.err # NoError \/ ext.cmd.output = EmptyStr
                                 THEN pbkdf2Key(peanuts, saltysalt, 1, 16)
                                 ELSE pbkdf2Key(TrimSpace(ext.cmd.output), saltysalt, 1, 16)

C16_Witness ==
    /\ runtimeGOOS = osDarwin
    /\ ext.cmd # NoCommand
    /\ ext.cmd.err # NoError
    /\ KeyRecoveryFailed
    /\ ext.tmpFile # NoPath
    /\ disk[ext.tmpFile] = Absent

\* The database the running call is about to query is one of the browser's
\* kind that holds no row of the LinkedIn domain.
ZeroRowsForDomain ==
    LET data == Content(disk, ext.db)
    IN  \/ /\ ext.pc = "readChromiumCookies"
           /\ data.kind = "chromium"
           /\ \A i \in DOMAIN data.rows : ~HasSuffix(data.rows[i].host_key, LinkedInCom)
        \/ /\ ext.pc = "readFirefoxCookies"
           /\ data.kind = "firefox"
           /\ \A i \in DOMAIN data.rows : ~HasSuffix(data.rows[i].host, LinkedInCom)

\* C14 as stated: when ExtractLinkedInCookies queries a Chromium-family or
\* Firefox database that holds no row of the LinkedIn domain, it returns nil
\* credentials and the error that names the missing li_at cookie.
C14_ZeroRowsNamesLiAt ==
    [][ (ext.fn = "ExtractLinkedInCookies" /\ ZeroRowsForDomain /\ ext'.pc = "done")
            => ext'.ret = [creds |-> Nil, err |-> ErrLiAtNotFound] ]_vars

\* C15 as stated: a call of ExtractLinkedInCookies ends, and ends in one of two
\* ways: with credentials and no error, or with nil credentials and an error.
C15_OneOutcome ==
    ext.fn = "ExtractLinkedInCookies"
        => /\ ext.pc # "panic"
           /\ ext.pc = "done"
                  => \/ (ext.ret.creds # Nil /\ ext.ret.err = NoError)
                     \/ (ext.ret.creds = Nil /\ ext.ret.err # NoError)

\* C21 as stated: for every data and every 32-bit offset,
\* readNullTerminatedString does not fault; it returns the empty string when
\* the offset is at or beyond len(data), and otherwise the bytes from the offset
\* up to the next NUL byte or the end of data; the result holds no NUL byte.
C21_NeverFaults ==
    result.op = "readNullTerminatedString"
        => LET data == input.data
               offset == input.offset
               beyond == offset.hi = 1 \/ offset.lo >= Len(data)
               stop == IF \E k \in (offset.lo + 1)..Len(data) : data[k] = 0
                         THEN CHOOSE k \in (offset.lo + 1)..Len(data) :
                                  /\ data[k] = 0
                                  /\ \A j \in (offset.lo + 1)..(k - 1) : data[j] # 0
                         ELSE Len(data) + 1
           IN  /\ ~result.ret.panic
               /\ beyond => result.ret.out = <<>>
               /\ ~beyond => result.ret.out = SubSeq(data, offset.lo + 1, stop - 1)
               /\ \A k \in DOMAIN result.ret.out : result.ret.out[k] # 0

\* The source of the copy can be read: it is a readable file.
SourceReadable ==
    disk[ext.cookiePath].kind = "file" /\ disk[ext.cookiePath].readable

\* C22: a step of copyToTemp either succeeds, and then its path names a
\* temporary file that did not exist before and now holds the bytes the source
\* holds, or it fails, and then the call has an error and the temporary files
\* are as they were: none is left behind.  It fails whenever the source is
\* absent or cannot be read, and succeeds only when the source can be read.
C22_CopyOrNothing ==
    [][ (ext.pc = "copyToTemp" /\ ext' # ext)
          => \/ /\ ext'.tmpFile \in TempPaths
                /\ SourceReadable
                /\ disk[ext'.tmpFile] = Absent
                /\ disk'[ext'.tmpFile].kind = "file"
                /\ disk'[ext'.tmpFile].data = disk[ext.cookiePath].data
                /\ disk'[ext.cookiePath] = disk[ext.cookiePath]
                /\ ext'.pc # "done"
             \/ /\ ext'.tmpFile = NoPath
                /\ ext'.pc = "done"
                /\ ext'.ret.err # NoError
                /\ \A p \in TempPaths : disk'[p] = Absent
                /\ disk' = disk ]_vars

\* A copy has succeeded and the live store was not rewritten since.
C22_Witness ==
    /\ ext.pc \in {"sqlOpen", "getChromiumDecryptionKey"}
    /\ ext.tmpFile \in TempPaths
    /\ disk[ext.tmpFile] = File(disk[ext.cookiePath].data, TRUE)
    /\ disk[ext.cookiePath].data = MacStore

\* C29 as stated: the ExpiresAt of the credentials cookiesToCredentials
\* returns is the expiry of the li_at cookie whose value became LiAt, the last
\* one of the list, and is unset when that cookie has no expiry.
C29_ExpiryOfSameCookie ==
    (result.op = "cookiesToCredentials" /\ result.ret.err = NoError)
        => /\ result.ret.creds.LiAt = LastCookie(input.cookies, LiAtName).Value
           /\ result.ret.creds.ExpiresAt = LastCookie(input.cookies, LiAtName).ExpiresAt

\* C25: a call of Do with RequireAuth set, and every call of Get, Post and
\* Delete, by a client that has no credentials or credentials that are not
\* valid at the time of the call sends no request and returns the error with
\* code AUTH_REQUIRED.
C25_AuthRequired ==
    ( /\ result.op = "Do"
      /\ input.call.req.RequireAuth
      /\ \/ input.credentials = Nil
         \/ input.credentials.LiAt = EmptyStr
         \/ input.credentials.JSessID = EmptyStr
         \/ (input.credentials.ExpiresAt # ZeroTime /\ input.credentials.ExpiresAt < input.now) )
        => /\ result.ret.requests = <<>>
           /\ result.ret.err # NoError
           /\ result.ret.err[1] = "AUTH_REQUIRED"

C25_Witness ==
    /\ result.op = "Do"
    /\ input.call.via = "Post"
    /\ input.credentials # Nil
    /\ input.credentials.LiAt # EmptyStr
    /\ input.credentials.JSessID # EmptyStr
    /\ input.credentials.ExpiresAt = 1
    /\ input.now = 2
    /\ input.answer = StatusOK
    /\ result.ret.requests = <<>>
    /\ result.ret.err[1] = "AUTH_REQUIRED"

\* C30 as stated: in both phases of LoginWithCredentials the manual redirect
\* following stops after at most 10 redirects.
C30_RedirectsBounded == login.followed <= 10

\* The store the running call is about to read holds li_at cookies of the
\* LinkedIn domain, all of them with the expiry field 0.
SessionLiAt ==
    LET data == Content(disk, ext.db)
    IN  \/ /\ ext.pc = "readChromiumCookies"
           /\ data.kind = "chromium"
           /\ \A i \in DOMAIN data.rows :
                  data.rows[i].name = LiAtName => data.rows[i].expires_utc = 0
        \/ /\ ext.pc = "readFirefoxCookies"
           /\ data.kind = "firefox"
           /\ \A i \in DOMAIN data.rows : data.rows[i].name = LiAtName => data.rows[i].expiry = 0
        \/ /\ ext.pc = "parseBinaryCookies"
           /\ disk[SafariCookies] = File(SafariSessionStore, TRUE)

\* C26 as stated: when ExtractLinkedInCookies reads a store whose li_at cookie
\* has the expiry field 0 and returns credentials, these have no expiration
\* set and are valid at a time of call after 2001.
C26_SessionCookieUnset ==
    [][ ( /\ ext.fn = "ExtractLinkedInCookies"
          /\ SessionLiAt
          /\ ext'.pc = "done"
          /\ ext'.ret.err = NoError )
            => /\ ext'.ret.creds.ExpiresAt = ZeroTime
               /\ IsValid(ext'.ret.creds, macEpoch + 1) ]_vars

\* C27 as stated: for every set of entries in the Firefox profiles directory,
\* findFirefoxProfile does not fault on a slice access; it returns either a
\* profile path and no error, or no path and an error.
C27_ProfileNeverFaults ==
    ext.pc = "findFirefoxProfile"
        => LET r == findFirefoxProfile(runtimeGOOS, disk)
           IN  /\ ~r.panic
               /\ \/ (r.path # NoPath /\ r.err = NoError)
                  \/ (r.path = NoPath /\ r.err # NoError)

(***************************************************************************)
(* The credential store.                                                   *)
(*                                                                         *)
(* Under SpecStore, disk is the configuration directory and the            *)
(* credentials file in it, and ext is the last call of the store with what *)
(* it returned.  ext.saved and ext.faulted are history: the credentials of *)
(* the last Save that returned nil since the last Delete that returned     *)
(* nil, and whether a write ever broke off half way.                       *)
(*                                                                         *)
(* encoding/json is a library: a string is written between quotes with "   *)
(* and \ escaped and every byte that is not part of a valid UTF-8 encoding *)
(* replaced by \ufffd; reading undoes the escapes.  Control characters and *)
(* <, > and & (escaped as \u00XX, and read back as themselves) do not      *)
(* occur in the values.                                                    *)
(***************************************************************************)
Backslash == 92

\* utf8.DecodeRuneInString: the length of the encoding at the head of s, 0 when
\* the head of s is not a valid encoding.
RuneLen(s) ==
    LET b(i) == IF i <= Len(s) THEN s[i] ELSE 0
        cont(i) == b(i) >= 128 /\ b(i) <= 191
    IN  IF b(1) < 128 THEN 1
        ELSE IF b(1) >= 194 /\ b(1) <= 223 THEN (IF cont(2) THEN 2 ELSE 0)
        ELSE IF b(1) = 224 THEN (IF b(2) >= 160 /\ b(2) <= 191 /\ cont(3) THEN 3 ELSE 0)
        ELSE IF b(1) = 237 THEN (IF b(2) >= 128 /\ b(2) <= 159 /\ cont(3) THEN 3 ELSE 0)
        ELSE IF b(1) >= 225 /\ b(1) <= 239 THEN (IF cont(2) /\ cont(3) THEN 3 ELSE 0)
        ELSE IF b(1) = 240
          THEN (IF b(2) >= 144 /\ b(2) <= 191 /\ cont(3) /\ cont(4) THEN 4 ELSE 0)
        ELSE IF b(1) >= 241 /\ b(1) <= 243
          THEN (IF cont(2) /\ cont(3) /\ cont(4) THEN 4 ELSE 0)
        ELSE IF b(1) = 244
          THEN (IF b(2) >= 128 /\ b(2) <= 143 /\ cont(3) /\ cont(4) THEN 4 ELSE 0)
        ELSE 0

\* The six bytes \ufffd, and the encoding of U+FFFD they are read back as.
EscapedReplacement == <<Backslash, 117, 102, 102, 102, 100>>

ReplacementChar == <<239, 191, 189>>

\* The text of a string between the quotes, as the encoder writes it.
RECURSIVE jsonEncodeString(_)
jsonEncodeString(s) ==
    IF s = <<>> THEN <<>>
    ELSE IF Head(s) = Quote \/ Head(s) = Backslash
      THEN <<Backslash, Head(s)>> \o jsonEncodeString(Tail(s))
    ELSE IF RuneLen(s) = 0 THEN EscapedReplacement \o jsonEncodeString(Tail(s))
    ELSE SubSeq(s, 1, RuneLen(s)) \o jsonEncodeString(SubSeq(s, RuneLen(s) + 1, Len(s)))

\* The string the decoder reads from the text between the quotes.
RECURSIVE jsonDecodeString(_)
jsonDecodeString(s) ==
    IF s = <<>> THEN <<>>
    ELSE IF Head(s) # Backslash THEN <<Head(s)>> \o jsonDecodeString(Tail(s))
    ELSE IF Len(s) >= 6 /\ SubSeq(s, 1, 6) = EscapedReplacement
      THEN ReplacementChar \o jsonDecodeString(SubSeq(s, 7, Len(s)))
    ELSE <<s[2]>> \o jsonDecodeString(SubSeq(s, 3, Len(s)))

\* The instant of year 10000 on the scaled time axis: time.Time.MarshalJSON
\* fails from there on.
jsonTimeLimit == macEpoch + MaxTime

ErrMarshal == <<"failed to marshal credentials", "Time.MarshalJSON: year outside of range [0,9999]">>

\* json.MarshalIndent(creds, "", "  "): the document, field by field.
jsonMarshal(creds) ==
    IF creds.ExpiresAt >= jsonTimeLimit THEN [data |-> NoData, err |-> ErrMarshal]
    ELSE [data |-> [li_at |-> jsonEncodeString(creds.LiAt),
                    jsessionid |-> jsonEncodeString(creds.JSessID),
                    csrf_token |-> jsonEncodeString(creds.CSRFToken),
                    expires_at |-> creds.ExpiresAt],
          err |-> NoError]

\* What a write that broke off leaves in the file: a proper prefix of a document.
Truncated == [truncated |-> TRUE]

ErrUnexpectedEnd == <<"unexpected end of JSON input">>

\* json.Unmarshal(data, &creds)
jsonUnmarshal(data) ==
    IF data = Truncated THEN [creds |-> Nil, err |-> ErrUnexpectedEnd]
    ELSE [creds |-> Credentials(jsonDecodeString(data.li_at),
                                jsonDecodeString(data.jsessionid),
                                jsonDecodeString(data.csrf_token),
                                data.expires_at),
          err |-> NoError]

\* The permission bits WriteFile asks for: 0600.
credMode == 384

OwnerRead(mode) == (mode \div 256) % 2 = 1

OwnerWrite(mode) == (mode \div 128) % 2 = 1

\* The configuration directory is absent, present, or present and not
\* writable; the credentials file is absent or has a content and a mode.
NoFile == [kind |-> "absent"]

CredFile(data, mode) == [kind |-> "file", data |-> data, mode |-> mode]

StoreDisk(dir, file) == [dir |-> dir, file |-> file]

ErrNoCredentials == <<"no stored credentials">>

\* os.MkdirAll(s.configDir, 0700); fault: the parent refuses the new directory.
osMkdirAll(d, fault) ==
    IF d.dir # "absent" THEN [disk |-> d, err |-> NoError]
    ELSE IF fault = "mkdir" THEN [disk |-> d, err |-> ErrPermission]
    ELSE [disk |-> [d EXCEPT !.dir = "present"], err |-> NoError]

\* os.WriteFile(credPath, data, 0600): open with O_WRONLY|O_CREATE|O_TRUNC,
\* write, close.  The mode is given to a file that open creates; a file that
\* is there is truncated and keeps its mode.  fault: the write breaks off.
osWriteFile(d, data, fault) ==
    LET mode == IF d.file = NoFile THEN credMode ELSE d.file.mode
    IN  IF d.file = NoFile /\ d.dir = "readonly" THEN [disk |-> d, err |-> ErrPermission]
        ELSE IF d.file # NoFile /\ ~OwnerWrite(d.file.mode)
          THEN [disk |-> d, err |-> ErrPermission]
        ELSE IF fault = "write"
          THEN [disk |-> [d EXCEPT !.file = CredFile(Truncated, mode)], err |-> ErrWrite]
        ELSE [disk |-> [d EXCEPT !.file = CredFile(data, mode)], err |-> NoError]

\* Store.Save(creds): the disk after the call and the error returned.
StoreSave(d, creds, fault) ==
    LET made == osMkdirAll(d, fault)
        doc == jsonMarshal(creds)
        written == osWriteFile(made.disk, doc.data, fault)
    IN  IF made.err # NoError
          THEN [disk |-> d, err |-> Wrap("failed to create config directory", made.err)]
        ELSE IF doc.err # NoError THEN [disk |-> made.disk, err |-> doc.err]
        ELSE IF written.err # NoError
          THEN [disk |-> written.disk, err |-> Wrap("failed to write credentials", written.err)]
        ELSE [disk |-> written.disk, err |-> NoError]

\* Store.Load()
StoreLoad(d) ==
    IF d.file = NoFile THEN [creds |-> Nil, err |-> ErrNoCredentials]
    ELSE IF ~OwnerRead(d.file.mode)
      THEN [creds |-> Nil, err |-> Wrap("failed to read credentials", ErrPermission)]
    ELSE LET parsed == jsonUnmarshal(d.file.data)
         IN  IF parsed.err # NoError
               THEN [creds |-> Nil, err |-> Wrap("failed to parse credentials", parsed.err)]
             ELSE parsed

\* Store.Delete(): the disk after the call and the error returned.
StoreDelete(d) ==
    IF d.file = NoFile THEN [disk |-> d, err |-> NoError]
    ELSE IF d.dir = "readonly"
      THEN [disk |-> d, err |-> Wrap("failed to delete credentials", ErrPermission)]
    ELSE [disk |-> [d EXCEPT !.file = NoFile], err |-> NoError]

\* Store.Exists()
StoreExists(d) == d.file # NoFile

(***************************************************************************)
(* auth login                                                              *)
(***************************************************************************)
ErrNotImplemented == <<"username/password authentication not yet implemented">>

ErrDetectUnsupported == <<"browser detection not supported on">>

ErrNoBrowser == <<"no supported browser found">>

ErrHome == <<"failed to get home directory">>

\* DetectDefaultBrowser(); found: whether a supported browser is the default
\* one or is installed.
DetectDefaultBrowser(goos, found) ==
    IF goos # osDarwin /\ goos # osLinux THEN ErrDetectUnsupported
    ELSE IF ~found THEN ErrNoBrowser
    ELSE NoError

\* NewStore(); fault: the home directory is not known and XDG_CONFIG_HOME is unset.
NewStore(fault) == IF fault = "home" THEN ErrHome ELSE NoError

Outcome(d, code, saves) == [disk |-> d, code |-> code, saves |-> saves]

\* runAuthLogin without the IsValid test.
runAuthLoginUnvalidated(d, goos, flags, obtained, found, now, fault) ==
    LET got == IF flags = "password" THEN [creds |-> Nil, err |-> ErrNotImplemented]
               ELSE obtained
        save == StoreSave(d, got.creds, fault)
    IN  IF flags = "default" /\ DetectDefaultBrowser(goos, found) # NoError
          THEN Outcome(d, "BROWSER_DETECT_FAILED", <<>>)
        ELSE IF got.err # NoError THEN Outcome(d, "LOGIN_FAILED", <<>>)
        ELSE IF NewStore(fault) # NoError THEN Outcome(d, "STORE_ERROR", <<>>)
        ELSE IF save.err # NoError THEN Outcome(save.disk, "STORE_ERROR", <<got.creds>>)
        ELSE Outcome(save.disk, "", <<got.creds>>)

\* runAuthLogin: flags says which case of the switch is taken, obtained is
\* what FromEnvironment or ExtractLinkedInCookies returns.  The result is the
\* disk after the command, the error code it prints ("" on success) and the
\* credentials Store.Save was called with.
runAuthLogin(d, goos, flags, obtained, found, now, fault) ==
    LET got == IF flags = "password" THEN [creds |-> Nil, err |-> ErrNotImplemented]
               ELSE obtained
        save == StoreSave(d, got.creds, fault)
    IN  IF flags = "default" /\ DetectDefaultBrowser(goos, found) # NoError
          THEN Outcome(d, "BROWSER_DETECT_FAILED", <<>>)
        ELSE IF got.err # NoError THEN Outcome(d, "LOGIN_FAILED", <<>>)
        ELSE IF ~IsValid(got.creds, now) THEN Outcome(d, "INVALID_CREDENTIALS", <<>>)
        ELSE IF NewStore(fault) # NoError THEN Outcome(d, "STORE_ERROR", <<>>)
        ELSE IF save.err # NoError THEN Outcome(save.disk, "STORE_ERROR", <<got.creds>>)
        ELSE Outcome(save.disk, "", <<got.creds>>)

(***************************************************************************)
(* Inputs of the store                                                     *)
(***************************************************************************)
\* A cookie value that failed to decrypt: readChromiumCookies keeps the raw
\* bytes, here a byte that belongs to no UTF-8 encoding.
RawValue == <<ChA, 255>>

StoreCredentials ==
    {Credentials(l, j, Trim(j, {Quote}), e) :
        l \in {<<ChA>>, RawValue},
        j \in {<<Quote, ChB, Quote>>},
        e \in {ZeroTime, jsonTimeLimit}}

\* Modes of a credentials file found on disk: 0600, 0644 and 0400.
FileModes == {credMode, credMode + 36, credMode - 128}

\* The file an earlier run left.
EarlierCredentials == Credentials(<<ChA>>, <<Quote, ChB, Quote>>, <<ChB>>, ZeroTime)

StoreDisks ==
    {StoreDisk("absent", NoFile)}
    \cup {StoreDisk(dir, NoFile) : dir \in {"present", "readonly"}}
    \cup {StoreDisk(dir, CredFile(jsonMarshal(EarlierCredentials).data, m)) :
             dir \in {"present", "readonly"}, m \in FileModes}

SaveFaults == {"none", "mkdir", "write"}

LoginFaults == {"none", "write", "home"}

LoginFlags == {"env", "browser", "password", "default"}

\* The cookies of a store: li_at with an expiry and as raw bytes, and JSESSIONID.
LoginCookies ==
    {Cookie(LiAtName, <<ChA>>, 2), Cookie(LiAtName, RawValue, ZeroTime),
     Cookie(JSessName, <<Quote, ChB, Quote>>, ZeroTime)}

\* The environment with LNK_LI_AT unset and set.
LoginEnvironments ==
    [LNK_LI_AT : {EmptyStr, <<ChA>>}, LNK_JSESSIONID : {<<Quote, ChB, Quote>>},
     LNK_COOKIES : {EmptyStr}]

\* What ExtractLinkedInCookies returns: an error, or the credentials of the
\* cookies it read.
Extracted ==
    {[creds |-> Nil, err |-> ErrCookiesFileNotFound]}
    \cup {cookiesToCredentials(cs) : cs \in SeqsUpTo(LoginCookies, MaxParts)}

FromEnv == {FromEnvironment(env) : env \in LoginEnvironments}

Obtained(flags) ==
    IF flags = "env" THEN FromEnv
    ELSE IF flags = "password" THEN {[creds |-> Nil, err |-> NoError]}
    ELSE Extracted

(***************************************************************************)
(* The store as a state machine                                            *)
(***************************************************************************)
StoreCall(op, arg, ret, saved, faulted) ==
    [op |-> op, arg |-> arg, ret |-> ret, saved |-> saved, faulted |-> faulted]

\* The history after a call of Store.Save with creds that left disk d and
\* returned err.
AfterSave(creds, d, err) ==
    [saved |-> IF err = NoError THEN creds ELSE ext.saved,
     faulted |-> ext.faulted \/ (d.file # NoFile /\ d.file.data = Truncated)]

InitStore ==
    /\ input = NoInput
    /\ result = NoResult
    /\ login = LoginIdle
    /\ runtimeGOOS \in {osLinux, osWindows}
    /\ disk \in StoreDisks
    /\ ext = StoreCall("none", Nil, Nil,
                       IF disk.file = NoFile THEN Nil ELSE EarlierCredentials, FALSE)

Save ==
    \E creds \in StoreCredentials, fault \in SaveFaults :
        LET r == StoreSave(disk, creds, fault)
            h == AfterSave(creds, r.disk, r.err)
        IN  /\ disk' = r.disk
            /\ ext' = StoreCall("Save", creds, r.err, h.saved, h.faulted)
            /\ UNCHANGED <<runtimeGOOS, pureVars>>

Load ==
    /\ ext' = StoreCall("Load", Nil, StoreLoad(disk), ext.saved, ext.faulted)
    /\ UNCHANGED <<disk, runtimeGOOS, pureVars>>

DeleteStored ==
    LET r == StoreDelete(disk)
    IN  /\ disk' = r.disk
        /\ ext' = StoreCall("Delete", Nil, r.err,
                            IF r.err = NoError THEN Nil ELSE ext.saved, ext.faulted)
        /\ UNCHANGED <<runtimeGOOS, pureVars>>

Exists ==
    /\ ext' = StoreCall("Exists", Nil, StoreExists(disk), ext.saved, ext.faulted)
    /\ UNCHANGED <<disk, runtimeGOOS, pureVars>>

RunAuthLogin ==
    \E flags \in LoginFlags, now \in Times, fault \in LoginFaults :
      \E obtained \in Obtained(flags), found \in (IF flags = "default" THEN BOOLEAN ELSE {TRUE}) :
        LET r == runAuthLogin(disk, runtimeGOOS, flags, obtained, found, now, fault)
            h == IF r.saves = <<>> THEN [saved |-> ext.saved, faulted |-> ext.faulted]
                 ELSE AfterSave(r.saves[1], r.disk, IF r.code = "" THEN NoError ELSE ErrWrite)
        IN  /\ disk' = r.disk
            /\ ext' = StoreCall("runAuthLogin",
                                [flags |-> flags, obtained |-> obtained, now |-> now],
                                [code |-> r.code, saves |-> r.saves], h.saved, h.faulted)
            /\ UNCHANGED <<runtimeGOOS, pureVars>>

NextStore ==
    \/ Save
    \/ Load
    \/ DeleteStored
    \/ Exists
    \/ RunAuthLogin

SpecStore == InitStore /\ [][NextStore]_vars

(***************************************************************************)
(* Properties of the store                                                 *)
(***************************************************************************)
SameSecrets(c, d) ==
    /\ c.LiAt = d.LiAt
    /\ c.JSessID = d.JSessID
    /\ c.CSRFToken = d.CSRFToken

\* C23 as stated, for runs in which no write broke off: Exists returns true
\* exactly when a Save succeeded after the last Delete; Load then returns the
\* LiAt, JSessID and CSRFToken last saved, and ErrNoCredentials otherwise;
\* Delete returns no error when nothing is stored.
C23_OptionalRegister ==
    [][ ~ext.faulted =>
          /\ ext'.op = "Exists" => ext'.ret = (ext.saved # Nil)
          /\ (ext'.op = "Load" /\ ext.saved # Nil)
                => /\ ext'.ret.err = NoError
                   /\ SameSecrets(ext'.ret.creds, ext.saved)
          /\ (ext'.op = "Load" /\ ext.saved = Nil)
                => ext'.ret = [creds |-> Nil, err |-> ErrNoCredentials]
          /\ (ext'.op = "Delete" /\ ext.saved = Nil) => ext'.ret = NoError ]_vars

\* C24 as stated: after a Save that returned no error the credentials file
\* has the mode 0600, whatever the file and the directory were before.
C24_ModeAfterSave ==
    (ext.op = "Save" /\ ext.ret = NoError)
        => disk.file # NoFile /\ disk.file.mode = credMode

\* C28: auth login calls Store.Save only with credentials it obtained without
\* error and found valid; when the credentials are not obtained (environment
\* not set, extraction error, no browser detected, not implemented) or are
\* invalid or expired, Save is not called and the disk is left as it was.
C28_SaveOnlyValid ==
    [][ ext'.op = "runAuthLogin" =>
          LET a == ext'.arg
              r == ext'.ret
              failing == \/ a.flags = "password"
                         \/ a.obtained.err # NoError
                         \/ ~IsValid(a.obtained.creds, a.now)
                         \/ r.code \in {"BROWSER_DETECT_FAILED", "LOGIN_FAILED",
                                         "INVALID_CREDENTIALS"}
          IN  /\ r.saves # <<>> => ~failing /\ r.saves = <<a.obtained.creds>>
              /\ failing => r.saves = <<>> /\ disk' = disk /\ r.code # "" ]_vars

\* auth login found the extracted credentials expired and credentials stored
\* earlier are still there.
C28_Witness ==
    /\ ext.op = "runAuthLogin"
    /\ ext.ret.code = "INVALID_CREDENTIALS"
    /\ ext.saved # Nil
    /\ StoreLoad(disk).err = NoError

====
